---- MODULE Spec2Model ----
(***************************************************************************)
(* Violation detection and risk-scoring engine of the proctoring server    *)
(* (bhararhire/app/server.mjs): signature catalog, process classifier,     *)
(* network threat scanner, behavioral and biometric analyzers, violation   *)
(* aggregator, session registry and the HTTP handlers around them.         *)
(*                                                                         *)
(* Strings that the code inspects (process names, command lines, netstat   *)
(* lines, catalog keys) are sequences of one-character strings, so that    *)
(* toLowerCase(), includes() and the IPv4 regular expression are computed. *)
(* Confidences are integers in hundredths (0.8 is 80).                     *)
(***************************************************************************)
EXTENDS Integers, Sequences, FiniteSets, TLC

VARIABLES
  isDev,              \* process.env.NODE_ENV === 'development'
  running,            \* FALSE once SIGINT/SIGTERM has been handled
  now,                \* logical clock behind new Date()
  activeSessions,     \* Map sessionId -> session record
  sessionViolations,  \* Map sessionId -> violation history
  inflight,           \* requests suspended at `await analyzeProcesses()`
  nextReq,            \* number of requests accepted so far
  response,           \* the last HTTP response sent
  handled,            \* the request completed last and the host it sampled
  served,             \* per session id: what completed calls returned
  alone,              \* per session id: history of a registry serving only it
  arg,                \* input of the function under test (function specs)
  ret                 \* its result

vars == <<isDev, running, now, activeSessions, sessionViolations, inflight,
          nextReq, response, handled, served, alone, arg, ret>>

----------------------------------------------------------------------------
(* Strings *)

UpperCase == <<"A","B","C","D","E","F","G","H","I","J","K","L","M",
               "N","O","P","Q","R","S","T","U","V","W","X","Y","Z">>
LowerCase == <<"a","b","c","d","e","f","g","h","i","j","k","l","m",
               "n","o","p","q","r","s","t","u","v","w","x","y","z">>
Digits == {"0","1","2","3","4","5","6","7","8","9"}

upperIndex == [c \in {UpperCase[i] : i \in 1..26} |->
                 CHOOSE i \in 1..26 : UpperCase[i] = c]

toLowerCaseChar(c) ==
  IF c \in DOMAIN upperIndex THEN LowerCase[upperIndex[c]] ELSE c

toLowerCase(s) == [i \in 1..Len(s) |-> toLowerCaseChar(s[i])]

includes(s, sub) ==
  \E i \in 0..(Len(s) - Len(sub)) : SubSeq(s, i + 1, i + Len(sub)) = sub

\* \w of the regular expression: [A-Za-z0-9_]
wordChars == Digits \cup {"_"} \cup {UpperCase[i] : i \in 1..26}
             \cup {LowerCase[i] : i \in 1..26}
isWordChar(c) == c \in wordChars

\* \b at the gap before position p (1..Len(s)+1)
wordBoundary(s, p) ==
  LET before == p > 1 /\ isWordChar(s[p - 1])
      after  == p <= Len(s) /\ isWordChar(s[p])
  IN  before # after

allDigits(s, from, n) == \A k \in from..(from + n - 1) : s[k] \in Digits

\* conn.match(/\b(?:[0-9]{1,3}\.){3}[0-9]{1,3}\b/g) is not null
ipMatch(s) ==
  \E p \in 1..Len(s) :
    /\ s[p] \in Digits
    /\ wordBoundary(s, p)
    /\ \E a, b, c, d \in 1..3 :
         LET pb == p + a + 1
             pc == pb + b + 1
             pd == pc + c + 1
             pe == pd + d
         IN  /\ pe - 1 <= Len(s)
             /\ allDigits(s, p, a)  /\ s[p + a] = "."
             /\ allDigits(s, pb, b) /\ s[pb + b] = "."
             /\ allDigits(s, pc, c) /\ s[pc + c] = "."
             /\ allDigits(s, pd, d)
             /\ wordBoundary(s, pe)

\* line.trim() is a non-empty string
trimNonEmpty(s) == \E i \in 1..Len(s) : s[i] # " "

----------------------------------------------------------------------------
(* Severity *)

Severities == {"LOW", "MEDIUM", "HIGH", "CRITICAL"}

\* the order LOW < MEDIUM < HIGH < CRITICAL, with CLEAN below LOW
SeverityRank(s) ==
  CASE s = "CLEAN" -> 0
    [] s = "LOW" -> 1
    [] s = "MEDIUM" -> 2
    [] s = "HIGH" -> 3
    [] s = "CRITICAL" -> 4

Min(a, b) == IF a < b THEN a ELSE b

----------------------------------------------------------------------------
(* Signature catalog *)

\* unauthorizedApps as evaluated under each value of isDev
unauthorizedApps == [dev \in BOOLEAN |-> <<
  [name |-> <<"p","y","t","h","o","n",".","e","x","e">>, description |-> "Python interpreter",
   severity |-> "HIGH", category |-> "development"],
  [name |-> <<"p","y","t","h","o","n","3",".","e","x","e">>, description |-> "Python 3 interpreter",
   severity |-> "HIGH", category |-> "development"],
  [name |-> <<"p","y","t","h","o","n">>, description |-> "Python (Linux/Mac)",
   severity |-> "HIGH", category |-> "development"],
  [name |-> <<"p","y","t","h","o","n","3">>, description |-> "Python 3 (Linux/Mac)",
   severity |-> "HIGH", category |-> "development"],
  [name |-> <<"n","o","d","e",".","e","x","e">>, description |-> "Node.js runtime",
   severity |-> IF dev THEN "LOW" ELSE "HIGH", category |-> "development"],
  [name |-> <<"n","o","d","e">>, description |-> "Node.js (Linux/Mac)",
   severity |-> IF dev THEN "LOW" ELSE "HIGH", category |-> "development"],
  [name |-> <<"n","p","m",".","e","x","e">>, description |-> "Node Package Manager",
   severity |-> "MEDIUM", category |-> "development"],
  [name |-> <<"n","p","m">>, description |-> "NPM (Linux/Mac)",
   severity |-> "MEDIUM", category |-> "development"],
  [name |-> <<"p","i","p",".","e","x","e">>, description |-> "Python Package Installer",
   severity |-> "MEDIUM", category |-> "development"],
  [name |-> <<"p","i","p">>, description |-> "Python Package Installer",
   severity |-> "MEDIUM", category |-> "development"],
  [name |-> <<"c","h","a","t","g","p","t",".","e","x","e">>, description |-> "ChatGPT Desktop App",
   severity |-> "CRITICAL", category |-> "ai_cheating"],
  [name |-> <<"c","l","a","u","d","e",".","e","x","e">>, description |-> "Claude Desktop App",
   severity |-> "CRITICAL", category |-> "ai_cheating"],
  [name |-> <<"c","o","p","i","l","o","t",".","e","x","e">>, description |-> "GitHub Copilot",
   severity |-> "CRITICAL", category |-> "ai_cheating"],
  [name |-> <<"b","a","r","d",".","e","x","e">>, description |-> "Google Bard",
   severity |-> "CRITICAL", category |-> "ai_cheating"],
  [name |-> <<"e","l","e","c","t","r","o","n",".","e","x","e">>, description |-> "Electron application (possible cheating app)",
   severity |-> "CRITICAL", category |-> "cheating"],
  [name |-> <<"e","l","e","c","t","r","o","n">>, description |-> "Electron (Linux/Mac)",
   severity |-> "CRITICAL", category |-> "cheating"],
  [name |-> <<"e","x","a","m","s","o","f","t",".","e","x","e">>, description |-> "ExamSoft (unauthorized)",
   severity |-> "CRITICAL", category |-> "cheating"],
  [name |-> <<"p","r","o","c","t","o","r","i","o",".","e","x","e">>, description |-> "Proctorio (unauthorized)",
   severity |-> "CRITICAL", category |-> "cheating"],
  [name |-> <<"c","o","d","e",".","e","x","e">>, description |-> "Visual Studio Code",
   severity |-> "HIGH", category |-> "development"],
  [name |-> <<"c","o","d","e">>, description |-> "VS Code (Linux/Mac)",
   severity |-> "HIGH", category |-> "development"],
  [name |-> <<"n","o","t","e","p","a","d","+","+",".","e","x","e">>, description |-> "Notepad++",
   severity |-> "MEDIUM", category |-> "development"],
  [name |-> <<"s","u","b","l","i","m","e","_","t","e","x","t",".","e","x","e">>, description |-> "Sublime Text",
   severity |-> "MEDIUM", category |-> "development"],
  [name |-> <<"a","t","o","m",".","e","x","e">>, description |-> "Atom Editor",
   severity |-> "MEDIUM", category |-> "development"],
  [name |-> <<"w","e","b","s","t","o","r","m",".","e","x","e">>, description |-> "WebStorm IDE",
   severity |-> "HIGH", category |-> "development"],
  [name |-> <<"p","y","c","h","a","r","m",".","e","x","e">>, description |-> "PyCharm IDE",
   severity |-> "HIGH", category |-> "development"],
  [name |-> <<"i","n","t","e","l","l","i","j",".","e","x","e">>, description |-> "IntelliJ IDEA",
   severity |-> "HIGH", category |-> "development"],
  [name |-> <<"e","c","l","i","p","s","e",".","e","x","e">>, description |-> "Eclipse IDE",
   severity |-> "HIGH", category |-> "development"],
  [name |-> <<"c","m","d",".","e","x","e">>, description |-> "Command Prompt",
   severity |-> IF dev THEN "LOW" ELSE "MEDIUM", category |-> "system"],
  [name |-> <<"p","o","w","e","r","s","h","e","l","l",".","e","x","e">>, description |-> "PowerShell",
   severity |-> IF dev THEN "LOW" ELSE "MEDIUM", category |-> "system"],
  [name |-> <<"b","a","s","h">>, description |-> "Bash Shell",
   severity |-> IF dev THEN "LOW" ELSE "MEDIUM", category |-> "system"],
  [name |-> <<"z","s","h">>, description |-> "Zsh Shell",
   severity |-> IF dev THEN "LOW" ELSE "MEDIUM", category |-> "system"],
  [name |-> <<"t","e","r","m","i","n","a","l">>, description |-> "Terminal",
   severity |-> IF dev THEN "LOW" ELSE "MEDIUM", category |-> "system"],
  [name |-> <<"i","t","e","r","m","2">>, description |-> "iTerm2",
   severity |-> IF dev THEN "LOW" ELSE "MEDIUM", category |-> "system"],
  [name |-> <<"t","e","a","m","v","i","e","w","e","r",".","e","x","e">>, description |-> "TeamViewer",
   severity |-> "CRITICAL", category |-> "remote_access"],
  [name |-> <<"a","n","y","d","e","s","k",".","e","x","e">>, description |-> "AnyDesk",
   severity |-> "CRITICAL", category |-> "remote_access"],
  [name |-> <<"c","h","r","o","m","e","_","r","e","m","o","t","e","_","d","e","s","k","t","o","p">>, description |-> "Chrome Remote Desktop",
   severity |-> "CRITICAL", category |-> "remote_access"],
  [name |-> <<"v","n","c">>, description |-> "VNC Viewer",
   severity |-> "CRITICAL", category |-> "remote_access"],
  [name |-> <<"r","d","p">>, description |-> "Remote Desktop Protocol",
   severity |-> "CRITICAL", category |-> "remote_access"],
  [name |-> <<"d","i","s","c","o","r","d",".","e","x","e">>, description |-> "Discord",
   severity |-> "HIGH", category |-> "communication"],
  [name |-> <<"s","l","a","c","k",".","e","x","e">>, description |-> "Slack",
   severity |-> "HIGH", category |-> "communication"],
  [name |-> <<"s","k","y","p","e",".","e","x","e">>, description |-> "Skype",
   severity |-> "HIGH", category |-> "communication"],
  [name |-> <<"t","e","l","e","g","r","a","m",".","e","x","e">>, description |-> "Telegram",
   severity |-> "HIGH", category |-> "communication"],
  [name |-> <<"w","h","a","t","s","a","p","p",".","e","x","e">>, description |-> "WhatsApp",
   severity |-> "HIGH", category |-> "communication"],
  [name |-> <<"z","o","o","m",".","e","x","e">>, description |-> "Zoom (unauthorized)",
   severity |-> "HIGH", category |-> "communication"],
  [name |-> <<"t","e","a","m","s",".","e","x","e">>, description |-> "Microsoft Teams (unauthorized)",
   severity |-> "HIGH", category |-> "communication"],
  [name |-> <<"o","b","s","6","4",".","e","x","e">>, description |-> "OBS Studio",
   severity |-> "HIGH", category |-> "recording"],
  [name |-> <<"o","b","s","3","2",".","e","x","e">>, description |-> "OBS Studio (32-bit)",
   severity |-> "HIGH", category |-> "recording"],
  [name |-> <<"b","a","n","d","i","c","a","m",".","e","x","e">>, description |-> "Bandicam",
   severity |-> "HIGH", category |-> "recording"],
  [name |-> <<"c","a","m","t","a","s","i","a",".","e","x","e">>, description |-> "Camtasia",
   severity |-> "HIGH", category |-> "recording"],
  [name |-> <<"f","r","a","p","s",".","e","x","e">>, description |-> "Fraps",
   severity |-> "HIGH", category |-> "recording"],
  [name |-> <<"v","m","w","a","r","e",".","e","x","e">>, description |-> "VMware",
   severity |-> "CRITICAL", category |-> "virtualization"],
  [name |-> <<"v","i","r","t","u","a","l","b","o","x",".","e","x","e">>, description |-> "VirtualBox",
   severity |-> "CRITICAL", category |-> "virtualization"],
  [name |-> <<"v","m","p","l","a","y","e","r",".","e","x","e">>, description |-> "VMware Player",
   severity |-> "CRITICAL", category |-> "virtualization"],
  [name |-> <<"q","e","m","u",".","e","x","e">>, description |-> "QEMU",
   severity |-> "CRITICAL", category |-> "virtualization"],
  [name |-> <<"c","h","r","o","m","e",".","e","x","e">>, description |-> "Google Chrome",
   severity |-> "LOW", category |-> "browser"],
  [name |-> <<"f","i","r","e","f","o","x",".","e","x","e">>, description |-> "Mozilla Firefox",
   severity |-> "LOW", category |-> "browser"],
  [name |-> <<"m","s","e","d","g","e",".","e","x","e">>, description |-> "Microsoft Edge",
   severity |-> "LOW", category |-> "browser"],
  [name |-> <<"m","s","e","d","g","e","w","e","b","v","i","e","w","2",".","e","x","e">>, description |-> "Microsoft Edge WebView2",
   severity |-> "LOW", category |-> "browser"],
  [name |-> <<"s","a","f","a","r","i">>, description |-> "Safari",
   severity |-> "LOW", category |-> "browser"],
  [name |-> <<"o","p","e","r","a",".","e","x","e">>, description |-> "Opera Browser",
   severity |-> "LOW", category |-> "browser"],
  [name |-> <<"b","l","u","e","s","t","a","c","k","s",".","e","x","e">>, description |-> "BlueStacks Android Emulator",
   severity |-> "HIGH", category |-> "emulation"],
  [name |-> <<"n","o","x","p","l","a","y","e","r",".","e","x","e">>, description |-> "Nox Player",
   severity |-> "HIGH", category |-> "emulation"],
  [name |-> <<"l","d","p","l","a","y","e","r",".","e","x","e">>, description |-> "LDPlayer",
   severity |-> "HIGH", category |-> "emulation"],
  [name |-> <<"p","r","o","c","m","o","n",".","e","x","e">>, description |-> "Process Monitor",
   severity |-> "MEDIUM", category |-> "monitoring"],
  [name |-> <<"p","r","o","c","e","x","p",".","e","x","e">>, description |-> "Process Explorer",
   severity |-> "MEDIUM", category |-> "monitoring"],
  [name |-> <<"w","i","r","e","s","h","a","r","k",".","e","x","e">>, description |-> "Wireshark",
   severity |-> "HIGH", category |-> "monitoring"],
  [name |-> <<"f","i","d","d","l","e","r",".","e","x","e">>, description |-> "Fiddler",
   severity |-> "HIGH", category |-> "monitoring"]
>>]

suspiciousPatterns == <<
  [pattern |-> <<"m","a","i","n",".","j","s">>, severity |-> "CRITICAL", description |-> "Potential cheating application main file"],
  [pattern |-> <<"c","h","e","a","t","i","n","g">>, severity |-> "CRITICAL", description |-> "Cheating-related keyword"],
  [pattern |-> <<"c","h","e","a","t">>, severity |-> "CRITICAL", description |-> "Cheat-related keyword"],
  [pattern |-> <<"h","a","c","k">>, severity |-> "HIGH", description |-> "Hack-related keyword"],
  [pattern |-> <<"e","x","p","l","o","i","t">>, severity |-> "HIGH", description |-> "Exploit-related keyword"],
  [pattern |-> <<"s","c","r","e","e","n","s","h","o","t">>, severity |-> "HIGH", description |-> "Screenshot functionality"],
  [pattern |-> <<"s","c","r","e","e","n","-","c","a","p","t","u","r","e">>, severity |-> "HIGH", description |-> "Screen capture functionality"],
  [pattern |-> <<"k","e","y","l","o","g","g","e","r">>, severity |-> "CRITICAL", description |-> "Keylogger functionality"],
  [pattern |-> <<"a","u","t","o","m","a","t","i","o","n">>, severity |-> "HIGH", description |-> "Automation tools"],
  [pattern |-> <<"s","e","l","e","n","i","u","m">>, severity |-> "HIGH", description |-> "Selenium automation"],
  [pattern |-> <<"p","u","p","p","e","t","e","e","r">>, severity |-> "HIGH", description |-> "Puppeteer automation"],
  [pattern |-> <<"p","l","a","y","w","r","i","g","h","t">>, severity |-> "HIGH", description |-> "Playwright automation"],
  [pattern |-> <<"c","y","p","r","e","s","s">>, severity |-> "HIGH", description |-> "Cypress testing framework"],
  [pattern |-> <<"r","e","m","o","t","e">>, severity |-> "HIGH", description |-> "Remote access functionality"],
  [pattern |-> <<"p","r","o","x","y">>, severity |-> "MEDIUM", description |-> "Proxy functionality"],
  [pattern |-> <<"t","u","n","n","e","l">>, severity |-> "HIGH", description |-> "Tunneling functionality"],
  [pattern |-> <<"n","g","r","o","k">>, severity |-> "HIGH", description |-> "Ngrok tunneling service"],
  [pattern |-> <<"s","s","h">>, severity |-> "MEDIUM", description |-> "SSH connection"],
  [pattern |-> <<"t","e","l","n","e","t">>, severity |-> "MEDIUM", description |-> "Telnet connection"],
  [pattern |-> <<"p","y","t","h","o","n"," ","-","c">>, severity |-> "HIGH", description |-> "Python inline code execution"],
  [pattern |-> <<"n","o","d","e"," ","-","e">>, severity |-> "HIGH", description |-> "Node.js inline code execution"],
  [pattern |-> <<"e","v","a","l","(">>, severity |-> "HIGH", description |-> "Code evaluation function"],
  [pattern |-> <<"e","x","e","c","(">>, severity |-> "HIGH", description |-> "Code execution function"],
  [pattern |-> <<"s","y","s","t","e","m","(">>, severity |-> "HIGH", description |-> "System command execution"],
  [pattern |-> <<"s","h","e","l","l","_","e","x","e","c">>, severity |-> "HIGH", description |-> "Shell command execution"],
  [pattern |-> <<"o","p","e","n","a","i">>, severity |-> "CRITICAL", description |-> "OpenAI API usage"],
  [pattern |-> <<"c","h","a","t","g","p","t">>, severity |-> "CRITICAL", description |-> "ChatGPT usage"],
  [pattern |-> <<"c","l","a","u","d","e">>, severity |-> "CRITICAL", description |-> "Claude AI usage"],
  [pattern |-> <<"b","a","r","d">>, severity |-> "CRITICAL", description |-> "Google Bard usage"],
  [pattern |-> <<"c","o","p","i","l","o","t">>, severity |-> "CRITICAL", description |-> "GitHub Copilot usage"],
  [pattern |-> <<"t","e","n","s","o","r","f","l","o","w">>, severity |-> "HIGH", description |-> "TensorFlow ML framework"],
  [pattern |-> <<"p","y","t","o","r","c","h">>, severity |-> "HIGH", description |-> "PyTorch ML framework"],
  [pattern |-> <<"d","e","b","u","g","g","e","r">>, severity |-> "MEDIUM", description |-> "Debugger usage"],
  [pattern |-> <<"b","r","e","a","k","p","o","i","n","t">>, severity |-> "MEDIUM", description |-> "Breakpoint usage"],
  [pattern |-> <<"i","n","s","p","e","c","t">>, severity |-> "MEDIUM", description |-> "Code inspection"],
  [pattern |-> <<"d","e","v","t","o","o","l","s">>, severity |-> "HIGH", description |-> "Developer tools"]
>>

suspiciousDomains == <<
  [domain |-> <<"c","h","a","t","g","p","t",".","c","o","m">>, category |-> "ai", severity |-> "CRITICAL"],
  [domain |-> <<"o","p","e","n","a","i",".","c","o","m">>, category |-> "ai", severity |-> "CRITICAL"],
  [domain |-> <<"c","l","a","u","d","e",".","a","i">>, category |-> "ai", severity |-> "CRITICAL"],
  [domain |-> <<"a","n","t","h","r","o","p","i","c",".","c","o","m">>, category |-> "ai", severity |-> "CRITICAL"],
  [domain |-> <<"b","a","r","d",".","g","o","o","g","l","e",".","c","o","m">>, category |-> "ai", severity |-> "CRITICAL"],
  [domain |-> <<"c","o","p","i","l","o","t",".","m","i","c","r","o","s","o","f","t",".","c","o","m">>, category |-> "ai", severity |-> "CRITICAL"],
  [domain |-> <<"c","h","a","r","a","c","t","e","r",".","a","i">>, category |-> "ai", severity |-> "CRITICAL"],
  [domain |-> <<"h","u","g","g","i","n","g","f","a","c","e",".","c","o">>, category |-> "ai", severity |-> "HIGH"],
  [domain |-> <<"s","t","a","c","k","o","v","e","r","f","l","o","w",".","c","o","m">>, category |-> "development", severity |-> "HIGH"],
  [domain |-> <<"g","i","t","h","u","b",".","c","o","m">>, category |-> "development", severity |-> "HIGH"],
  [domain |-> <<"g","i","t","l","a","b",".","c","o","m">>, category |-> "development", severity |-> "HIGH"],
  [domain |-> <<"b","i","t","b","u","c","k","e","t",".","o","r","g">>, category |-> "development", severity |-> "HIGH"],
  [domain |-> <<"r","e","p","l",".","i","t">>, category |-> "development", severity |-> "HIGH"],
  [domain |-> <<"c","o","d","e","p","e","n",".","i","o">>, category |-> "development", severity |-> "HIGH"],
  [domain |-> <<"j","s","f","i","d","d","l","e",".","n","e","t">>, category |-> "development", severity |-> "HIGH"],
  [domain |-> <<"c","o","d","e","s","a","n","d","b","o","x",".","i","o">>, category |-> "development", severity |-> "HIGH"],
  [domain |-> <<"g","l","i","t","c","h",".","c","o","m">>, category |-> "development", severity |-> "HIGH"],
  [domain |-> <<"c","h","e","g","g",".","c","o","m">>, category |-> "cheating", severity |-> "CRITICAL"],
  [domain |-> <<"c","o","u","r","s","e","h","e","r","o",".","c","o","m">>, category |-> "cheating", severity |-> "CRITICAL"],
  [domain |-> <<"s","t","u","d","y","b","l","u","e",".","c","o","m">>, category |-> "cheating", severity |-> "HIGH"],
  [domain |-> <<"q","u","i","z","l","e","t",".","c","o","m">>, category |-> "cheating", severity |-> "HIGH"],
  [domain |-> <<"b","r","a","i","n","l","y",".","c","o","m">>, category |-> "cheating", severity |-> "HIGH"],
  [domain |-> <<"d","i","s","c","o","r","d",".","c","o","m">>, category |-> "communication", severity |-> "HIGH"],
  [domain |-> <<"s","l","a","c","k",".","c","o","m">>, category |-> "communication", severity |-> "HIGH"],
  [domain |-> <<"t","e","l","e","g","r","a","m",".","o","r","g">>, category |-> "communication", severity |-> "HIGH"],
  [domain |-> <<"w","h","a","t","s","a","p","p",".","c","o","m">>, category |-> "communication", severity |-> "HIGH"],
  [domain |-> <<"z","o","o","m",".","u","s">>, category |-> "communication", severity |-> "MEDIUM"],
  [domain |-> <<"t","e","a","m","v","i","e","w","e","r",".","c","o","m">>, category |-> "remote_access", severity |-> "CRITICAL"],
  [domain |-> <<"a","n","y","d","e","s","k",".","c","o","m">>, category |-> "remote_access", severity |-> "CRITICAL"],
  [domain |-> <<"c","h","r","o","m","e",".","g","o","o","g","l","e",".","c","o","m","/","w","e","b","s","t","o","r","e">>, category |-> "remote_access", severity |-> "HIGH"]
>>

\* app.name.toLowerCase(), pattern.pattern.toLowerCase() and
\* domain.domain.toLowerCase() of each catalog entry
appKeys ==
  [i \in 1..Len(unauthorizedApps[TRUE]) |->
     toLowerCase(unauthorizedApps[TRUE][i].name)]
patternKeys ==
  [i \in 1..Len(suspiciousPatterns) |->
     toLowerCase(suspiciousPatterns[i].pattern)]
domainKeys ==
  [i \in 1..Len(suspiciousDomains) |->
     toLowerCase(suspiciousDomains[i].domain)]

\* the index Array.prototype.find / some stops at
firstOf(hits) == CHOOSE i \in hits : \A j \in hits : i <= j

----------------------------------------------------------------------------
(* Network threat scanner *)

\* One listing of `netstat -an | grep ESTABLISHED`: either the command fails
\* (execPromise rejects) or it prints lines.
\* listing = [failed |-> BOOLEAN, lines |-> sequence of strings]

\* (searching the line as it is, without toLowerCase)
mentionedCaseSensitive(conn) ==
  IF ipMatch(conn)
    THEN {d \in 1..Len(suspiciousDomains) : includes(conn, domainKeys[d])}
    ELSE {}

\* the catalog entries for which the callback of connections.some(...)
\* returns true on the line conn
mentioned(conn) ==
  IF ipMatch(conn)
    THEN LET lower == toLowerCase(conn)
         IN  {d \in 1..Len(suspiciousDomains) : includes(lower, domainKeys[d])}
    ELSE {}

isExternal(conn) ==
  /\ ~includes(conn, <<"1","2","7",".","0",".","0",".","1">>)
  /\ ~includes(conn, <<":",":","1">>)
  /\ ~includes(conn, <<"l","o","c","a","l","h","o","s","t">>)

\* the catalog entries mentioned by some line, in catalog order
threatsIn(connections) ==
  LET found == UNION {mentioned(connections[k]) :
                        k \in 1..Len(connections)}
      hits[d \in 0..Len(suspiciousDomains)] ==
        IF d = 0 THEN <<>>
        ELSE IF d \in found
          THEN Append(hits[d - 1],
                      [domain |-> suspiciousDomains[d].domain,
                       category |-> suspiciousDomains[d].category,
                       severity |-> suspiciousDomains[d].severity])
          ELSE hits[d - 1]
  IN  hits[Len(suspiciousDomains)]

\* the object returned when the listing succeeds
networkThreatsOf(connections, suspiciousConnections) ==
  [suspiciousConnections |-> suspiciousConnections,
   connectionStats |->
     [total |-> Len(connections),
      external |-> Len(SelectSeq(connections, isExternal)),
      suspicious |-> Len(suspiciousConnections)],
   error |-> FALSE]

checkNetworkConnections(listing) ==
  IF listing.failed
    THEN [suspiciousConnections |-> <<>>,
          connectionStats |-> [total |-> 0, external |-> 0, suspicious |-> 0],
          error |-> TRUE]
    ELSE networkThreatsOf(SelectSeq(listing.lines, trimNonEmpty),
                          threatsIn(SelectSeq(listing.lines, trimNonEmpty)))

----------------------------------------------------------------------------
(* Behavioral and biometric analyzers *)

\* An optional request field is <<>> when absent (falsy) and <<value>> when
\* present.  A metric is a number; `unconvertible` names the metrics whose
\* JSON value is an object with non-callable valueOf and toString, on which
\* a comparison or a division throws a TypeError.

behaviorThrows(behaviorData) ==
  behaviorData # <<>> /\ behaviorData[1].unconvertible # {}

\* (comparing the keystroke count itself, not the rate per interval)
analyzeBehaviorMetricsPerSecond(behaviorData) ==
  IF behaviorData = <<>>
    THEN [riskScore |-> 0, anomalies |-> <<>>, recommendations |-> <<>>]
    ELSE
      LET b == behaviorData[1]
          tab == b.tabSwitches > 5
          rc == b.rightClicks > 3
          idle == b.idleTime > 60000
          \* keystrokes > 100
          keys == b.keystrokes > 100
          riskScore == (IF tab THEN b.tabSwitches * 2 ELSE 0)
                       + (IF rc THEN b.rightClicks * 3 ELSE 0)
                       + (IF idle THEN 10 ELSE 0)
                       + (IF keys THEN 15 ELSE 0)
      IN  [riskScore |-> riskScore,
           anomalies |->
             (IF tab THEN <<[type |-> "EXCESSIVE_TAB_SWITCHING",
                             severity |-> IF b.tabSwitches > 10
                                            THEN "HIGH" ELSE "MEDIUM",
                             confidence |-> 90]>> ELSE <<>>)
             \o (IF rc THEN <<[type |-> "EXCESSIVE_RIGHT_CLICKS",
                               severity |-> "MEDIUM",
                               confidence |-> 80]>> ELSE <<>>)
             \o (IF idle THEN <<[type |-> "EXTENDED_IDLE_TIME",
                                 severity |-> "MEDIUM",
                                 confidence |-> 70]>> ELSE <<>>)
             \o (IF keys THEN <<[type |-> "UNUSUAL_KEYSTROKE_PATTERN",
                                 severity |-> "HIGH",
                                 confidence |-> 85]>> ELSE <<>>),
           recommendations |->
             (IF riskScore > 50
                THEN <<"Increase monitoring frequency",
                       "Request additional verification">> ELSE <<>>)
             \o (IF b.tabSwitches > 3
                   THEN <<"Warn candidate about tab switching">> ELSE <<>>)]

\* analyzeBehaviorMetrics(behaviorData, sessionId); sessionId is not used
analyzeBehaviorMetrics(behaviorData) ==
  IF behaviorData = <<>>
    THEN [riskScore |-> 0, anomalies |-> <<>>, recommendations |-> <<>>]
    ELSE
      LET b == behaviorData[1]
          tab == b.tabSwitches > 5
          rc == b.rightClicks > 3
          idle == b.idleTime > 60000
          \* keystrokes / 5 > 100
          keys == b.keystrokes > 100 * 5
          riskScore == (IF tab THEN b.tabSwitches * 2 ELSE 0)
                       + (IF rc THEN b.rightClicks * 3 ELSE 0)
                       + (IF idle THEN 10 ELSE 0)
                       + (IF keys THEN 15 ELSE 0)
      IN  [riskScore |-> riskScore,
           anomalies |->
             (IF tab THEN <<[type |-> "EXCESSIVE_TAB_SWITCHING",
                             severity |-> IF b.tabSwitches > 10
                                            THEN "HIGH" ELSE "MEDIUM",
                             confidence |-> 90]>> ELSE <<>>)
             \o (IF rc THEN <<[type |-> "EXCESSIVE_RIGHT_CLICKS",
                               severity |-> "MEDIUM",
                               confidence |-> 80]>> ELSE <<>>)
             \o (IF idle THEN <<[type |-> "EXTENDED_IDLE_TIME",
                                 severity |-> "MEDIUM",
                                 confidence |-> 70]>> ELSE <<>>)
             \o (IF keys THEN <<[type |-> "UNUSUAL_KEYSTROKE_PATTERN",
                                 severity |-> "HIGH",
                                 confidence |-> 85]>> ELSE <<>>),
           recommendations |->
             (IF riskScore > 50
                THEN <<"Increase monitoring frequency",
                       "Request additional verification">> ELSE <<>>)
             \o (IF b.tabSwitches > 3
                   THEN <<"Warn candidate about tab switching">> ELSE <<>>)]

biometricThrows(biometricData) ==
  biometricData # <<>> /\ biometricData[1].unconvertible # {}

analyzeBiometricData(biometricData) ==
  IF biometricData = <<>>
    THEN [riskScore |-> 0, anomalies |-> <<>>, attentionLevel |-> "NORMAL"]
    ELSE
      LET b == biometricData[1]
          face == ~b.faceDetected
          faceAnomaly ==
            IF face THEN <<[type |-> "FACE_NOT_DETECTED", severity |-> "HIGH",
                            confidence |-> 95]>> ELSE <<>>
          faceScore == IF face THEN 30 ELSE 0
      IN  IF b.attentionScore < 70
            THEN [riskScore |-> faceScore + 20,
                  anomalies |-> faceAnomaly \o
                    <<[type |-> "LOW_ATTENTION_SCORE", severity |-> "MEDIUM",
                       confidence |-> 80]>>,
                  attentionLevel |-> "LOW"]
          ELSE IF b.attentionScore < 50
            THEN [riskScore |-> faceScore + 40,
                  anomalies |-> faceAnomaly \o
                    <<[type |-> "CRITICAL_ATTENTION_SCORE", severity |-> "HIGH",
                       confidence |-> 90]>>,
                  attentionLevel |-> "CRITICAL"]
          ELSE [riskScore |-> faceScore, anomalies |-> faceAnomaly,
                attentionLevel |-> "NORMAL"]

----------------------------------------------------------------------------
(* Process classifier *)

\* A process observation of psList: [pid, name, cmd]; an absent name or
\* command line is the empty string (both are falsy in the code's tests).
\* Array.prototype.find: the first element that passes, as <<element>>, or
\* <<>> for undefined.

\* (comparing the names as they are, without toLowerCase)
findAppCaseSensitive(proc, dev) ==
  LET hits == {i \in 1..Len(appKeys) :
                 proc.name # <<>> /\ proc.name = unauthorizedApps[dev][i].name}
  IN  IF hits # {} THEN <<unauthorizedApps[dev][firstOf(hits)]>> ELSE <<>>

findApp(proc, dev) ==
  LET key == toLowerCase(proc.name)
      hits == {i \in 1..Len(appKeys) : proc.name # <<>> /\ key = appKeys[i]}
  IN  IF hits # {} THEN <<unauthorizedApps[dev][firstOf(hits)]>> ELSE <<>>

\* (taking the last pattern of the catalog that the command line contains)
findPatternLast(cmd) ==
  LET key == toLowerCase(cmd)
      hits == {i \in 1..Len(patternKeys) : includes(key, patternKeys[i])}
  IN  IF hits # {}
        THEN <<suspiciousPatterns[CHOOSE i \in hits : \A j \in hits : j <= i]>>
        ELSE <<>>

\* (with main.js rated MEDIUM in the pattern catalog)
findPatternMainJsMedium(cmd) ==
  LET key == toLowerCase(cmd)
      hits == {i \in 1..Len(patternKeys) : includes(key, patternKeys[i])}
  IN  IF hits = {} THEN <<>>
      ELSE IF firstOf(hits) = 1
        THEN <<[suspiciousPatterns[1] EXCEPT !.severity = "MEDIUM"]>>
      ELSE <<suspiciousPatterns[firstOf(hits)]>>

findPattern(cmd) ==
  LET key == toLowerCase(cmd)
      hits == {i \in 1..Len(patternKeys) : includes(key, patternKeys[i])}
  IN  IF hits # {} THEN <<suspiciousPatterns[firstOf(hits)]>> ELSE <<>>

\* (skipping the server's own process in production as well)
isServerProcessAnyMode(proc, dev) ==
  /\ proc.name # <<>>
  /\ proc.cmd # <<>>
  /\ \/ toLowerCase(proc.name) = <<"n","o","d","e",".","e","x","e">>
     \/ toLowerCase(proc.name) = <<"n","o","d","e">>
  /\ includes(proc.cmd, <<"s","e","r","v","e","r",".","m","j","s">>)

\* the server's own process, skipped in development
isServerProcess(proc, dev) ==
  /\ dev
  /\ proc.name # <<>>
  /\ proc.cmd # <<>>
  /\ \/ toLowerCase(proc.name) = <<"n","o","d","e",".","e","x","e">>
     \/ toLowerCase(proc.name) = <<"n","o","d","e">>
  /\ includes(proc.cmd, <<"s","e","r","v","e","r",".","m","j","s">>)

isElectron(proc) ==
  includes(toLowerCase(proc.name), <<"e","l","e","c","t","r","o","n">>)

\* an Electron process whose command line names main.js
isElectronMainJs(proc) ==
  /\ isElectron(proc)
  /\ proc.cmd # <<>>
  /\ includes(proc.cmd, <<"m","a","i","n",".","j","s">>)

\* else an Electron process whose command line names an .asar archive
isElectronAsar(proc) ==
  /\ isElectron(proc)
  /\ ~isElectronMainJs(proc)
  /\ proc.cmd # <<>>
  /\ includes(proc.cmd, <<".","a","s","a","r">>)

\* description, threat_level and confidence as the Electron checks leave
\* them for a process found in the catalog
electronCheck(proc, unauthorizedApp, mainJs, asar) ==
  [name |-> proc.name,
   pid |-> proc.pid,
   description |->
     IF mainJs
       THEN <<"CRITICAL: AI-detected cheating application (main.js pattern)">>
     ELSE IF asar
       THEN <<"AI-detected: Electron app with packed resources (suspicious)">>
     ELSE <<unauthorizedApp.description>>,
   cmd |-> proc.cmd,
   severity |-> IF mainJs THEN "CRITICAL"
                ELSE IF asar THEN "HIGH"
                ELSE unauthorizedApp.severity,
   category |-> unauthorizedApp.category,
   confidence |-> IF mainJs THEN 95 ELSE IF asar THEN 85 ELSE 80]

\* (overriding the threat level and the description only)
patternOverrideKeepsConfidence(entry, suspiciousPattern) ==
  IF suspiciousPattern = <<>> THEN entry
  ELSE [entry EXCEPT
          !.description = @ \o <<suspiciousPattern[1].description>>,
          !.severity = suspiciousPattern[1].severity]

\* a suspicious pattern in the command line overrides the threat level,
\* extends the description and raises the confidence
patternOverride(entry, suspiciousPattern) ==
  IF suspiciousPattern = <<>> THEN entry
  ELSE [entry EXCEPT
          !.description = @ \o <<suspiciousPattern[1].description>>,
          !.severity = suspiciousPattern[1].severity,
          !.confidence = Min(98, @ + 10)]

\* results.unauthorized.push({..., aiDetected: confidence > 0.9})
pushedEntry(entry) ==
  [name |-> entry.name,
   pid |-> entry.pid,
   description |-> entry.description,
   cmd |-> IF entry.cmd # <<>> THEN entry.cmd
           ELSE <<"No command-line details available">>,
   severity |-> entry.severity,
   category |-> entry.category,
   confidence |-> entry.confidence,
   aiDetected |-> entry.confidence > 90]

\* the entry pushed to results.unauthorized for a process, <<>> if none
unauthorizedEntry(proc, dev) ==
  IF isServerProcess(proc, dev) \/ findApp(proc, dev) = <<>> THEN <<>>
  ELSE <<pushedEntry(
           patternOverride(
             electronCheck(proc, findApp(proc, dev)[1],
                           isElectronMainJs(proc), isElectronAsar(proc)),
             IF proc.cmd # <<>> THEN findPattern(proc.cmd) ELSE <<>>))>>

\* the entry pushed to results.suspicious for a command line that matches
\* suspiciousPattern
flaggedEntry(proc, suspiciousPattern) ==
  [name |-> IF proc.name # <<>> THEN proc.name
            ELSE <<"u","n","k","n","o","w","n">>,
   pid |-> proc.pid,
   cmd |-> proc.cmd,
   reason |-> suspiciousPattern.description,
   severity |-> suspiciousPattern.severity,
   confidence |-> 80,
   aiDetected |-> TRUE]

\* (flagging the command line whether or not the name is in the catalog)
suspiciousEntryAnyName(proc, dev) ==
  IF isServerProcess(proc, dev) \/ proc.cmd = <<>> THEN <<>>
  ELSE IF findPattern(proc.cmd) # <<>>
    THEN <<flaggedEntry(proc, findPattern(proc.cmd)[1])>>
  ELSE <<>>

\* the entry pushed to results.suspicious for a process, <<>> if none
suspiciousEntry(proc, dev) ==
  IF isServerProcess(proc, dev) \/ proc.cmd = <<>> THEN <<>>
  ELSE IF findPattern(proc.cmd) # <<>> /\ findApp(proc, dev) = <<>>
    THEN <<flaggedEntry(proc, findPattern(proc.cmd)[1])>>
  ELSE <<>>

isBrowserName(name) ==
  /\ name # <<>>
  /\ \/ includes(toLowerCase(name), <<"c","h","r","o","m","e">>)
     \/ includes(toLowerCase(name), <<"f","i","r","e","f","o","x">>)
     \/ includes(toLowerCase(name), <<"s","a","f","a","r","i">>)
     \/ includes(toLowerCase(name), <<"m","s","e","d","g","e">>)
     \/ includes(toLowerCase(name),
                 <<"m","s","e","d","g","e","w","e","b","v","i","e","w","2">>)

\* the keys the forEach counts under, in process order:
\* browserName = proc.name.toLowerCase() of each browser process
browserNames(processes, dev) ==
  LET counted == SelectSeq(processes,
                           LAMBDA proc : /\ ~isServerProcess(proc, dev)
                                         /\ isBrowserName(proc.name))
  IN  [k \in 1..Len(counted) |-> toLowerCase(counted[k].name)]

\* the object built by
\* browserCounts[browserName] = (browserCounts[browserName] || 0) + 1
\* over these keys: [browser, count] in insertion order
countNames(names) ==
  LET firsts == SelectSeq([k \in 1..Len(names) |-> k],
                          LAMBDA k : \A j \in 1..(k - 1) :
                                       names[j] # names[k])
  IN  [m \in 1..Len(firsts) |->
         [browser |-> names[firsts[m]],
          count |-> Cardinality({j \in 1..Len(names) :
                                   names[j] = names[firsts[m]]})]]

\* browserCounts after the forEach
browserCounts(processes, dev) == countNames(browserNames(processes, dev))

\* (the production threshold in either mode)
browserThresholdProduction(dev) == 8

browserThreshold(dev) == IF dev THEN 20 ELSE 8

browserInstance(entry, dev) ==
  [browser |-> entry.browser,
   count |-> entry.count,
   threat_level |-> IF entry.count > browserThreshold(dev) + 10
                      THEN "HIGH" ELSE "MEDIUM",
   aiAnalysis |->
     [suspiciousMultipleTabs |-> entry.count > browserThreshold(dev) * 2,
      possibleCheating |-> entry.count > browserThreshold(dev) * 3]]

\* processPatterns[category] after the forEach
countCategory(unauthorized, category) ==
  Len(SelectSeq(unauthorized, LAMBDA app : app.category = category))

\* results.unauthorized after the loop over the processes
detectUnauthorized(processes, dev) ==
  LET un[i \in 0..Len(processes)] ==
        IF i = 0 THEN <<>>
        ELSE un[i - 1] \o unauthorizedEntry(processes[i], dev)
  IN  un[Len(processes)]

\* results.suspicious after the loop over the processes
detectSuspicious(processes, dev) ==
  LET su[i \in 0..Len(processes)] ==
        IF i = 0 THEN <<>>
        ELSE su[i - 1] \o suspiciousEntry(processes[i], dev)
  IN  su[Len(processes)]

\* the browsers of browserCounts that run more instances than the threshold
overThreshold(counts, dev) ==
  SelectSeq(counts, LAMBDA e : e.count > browserThreshold(dev))

\* results.browserInstances
browserInstances(over, dev) ==
  [k \in 1..Len(over) |-> browserInstance(over[k], dev)]

\* results.aiAnalysis: the risk score and the confidence
aiAnalysis(unauthorized, suspicious, networkThreats) ==
  [riskScore |->
     countCategory(unauthorized, "cheating") * 40
     + countCategory(unauthorized, "development") * 15
     + countCategory(unauthorized, "communication") * 10
     + Len(suspicious) * 25
     + Len(networkThreats.suspiciousConnections) * 20,
   confidence |->
     Min(95, 60 + Len(unauthorized) * 5 + Len(suspicious) * 3)]

\* the results object, given its lists
resultsOf(unauthorized, suspicious, browsers, networkThreats, processCount) ==
  [unauthorized |-> unauthorized,
   suspicious |-> suspicious,
   browserInstances |-> browsers,
   networkThreats |-> networkThreats,
   processCount |-> processCount,
   aiAnalysis |-> aiAnalysis(unauthorized, suspicious, networkThreats)]

\* the results object analyzeProcesses builds once psList has answered with
\* `processes` and checkNetworkConnections with `networkThreats`
processResults(processes, networkThreats, dev) ==
  resultsOf(detectUnauthorized(processes, dev),
            detectSuspicious(processes, dev),
            browserInstances(
              overThreshold(browserCounts(processes, dev), dev), dev),
            networkThreats,
            Len(processes))

\* (without the catch block of checkNetworkConnections: a failed listing
\* rejects analyzeProcesses as a failed psList does)
analyzeProcessesListingThrows(snapshot, dev) ==
  IF snapshot.psFailed \/ snapshot.listing.failed
    THEN [threw |-> TRUE, results |-> <<>>]
    ELSE [threw |-> FALSE,
          results |-> <<processResults(snapshot.processes,
                          checkNetworkConnections(snapshot.listing), dev)>>]

\* One sampling of the host: psList either rejects or answers, and so does
\* the connection listing.
\* snapshot = [psFailed |-> BOOLEAN, processes |-> ..., listing |-> ...]
\* analyzeProcesses rethrows a psList failure from its catch block.
analyzeProcesses(snapshot, dev) ==
  IF snapshot.psFailed
    THEN [threw |-> TRUE, results |-> <<>>]
    ELSE [threw |-> FALSE,
          results |-> <<processResults(snapshot.processes,
                          checkNetworkConnections(snapshot.listing), dev)>>]

----------------------------------------------------------------------------
(* Violation aggregator *)

\* (tallying a LOW violation under mediumViolations)
countViolationLowAsMedium(summary, severity) ==
  [totalViolations |-> summary.totalViolations + 1,
   criticalViolations |->
     summary.criticalViolations + (IF severity = "CRITICAL" THEN 1 ELSE 0),
   highViolations |->
     summary.highViolations + (IF severity = "HIGH" THEN 1 ELSE 0),
   mediumViolations |->
     summary.mediumViolations
     + (IF severity \in {"MEDIUM", "LOW"} THEN 1 ELSE 0),
   lowViolations |-> summary.lowViolations]

\* report.summary[`${severity.toLowerCase()}Violations`]++ after totalViolations++
countViolation(summary, severity) ==
  [totalViolations |-> summary.totalViolations + 1,
   criticalViolations |->
     summary.criticalViolations + (IF severity = "CRITICAL" THEN 1 ELSE 0),
   highViolations |->
     summary.highViolations + (IF severity = "HIGH" THEN 1 ELSE 0),
   mediumViolations |->
     summary.mediumViolations + (IF severity = "MEDIUM" THEN 1 ELSE 0),
   lowViolations |->
     summary.lowViolations + (IF severity = "LOW" THEN 1 ELSE 0)]

\* "Update overall severity" of each forEach of generateViolationReport
severityAfterUnauthorized(current, severity) ==
  IF severity = "CRITICAL" /\ current # "CRITICAL" THEN "CRITICAL"
  ELSE IF severity = "HIGH" /\ current \notin {"CRITICAL"} THEN "HIGH"
  ELSE IF severity = "MEDIUM" /\ current \notin {"CRITICAL", "HIGH"}
    THEN "MEDIUM"
  ELSE current

severityAfterSuspicious(current, severity) ==
  IF severity = "HIGH" /\ current \notin {"CRITICAL"} THEN "HIGH"
  ELSE IF current \notin {"CRITICAL", "HIGH"} THEN "MEDIUM"
  ELSE current

severityAfterNetwork(current, severity) ==
  IF severity = "CRITICAL" /\ current # "CRITICAL" THEN "CRITICAL"
  ELSE IF severity = "HIGH" /\ current \notin {"CRITICAL"} THEN "HIGH"
  ELSE current

severityAfterBrowser(current, threat_level) ==
  IF threat_level = "HIGH" /\ current \notin {"CRITICAL"} THEN "HIGH"
  ELSE IF current \notin {"CRITICAL", "HIGH"} THEN "MEDIUM"
  ELSE current

\* behavioral and biometric anomalies leave report.severity as it is
severityAfterAnomaly(current, severity) == current

\* A violation keeps type, severity, confidence, category, aiDetected and
\* what identifies its subject in `details`; a category the code does not
\* set is "none" and an aiDetected it does not set is FALSE (it is only
\* tested for truthiness).
unauthorizedViolation(app) ==
  [type |-> "UNAUTHORIZED_APPLICATION", severity |-> app.severity,
   details |-> <<app.name, app.pid, app.description>>,
   confidence |-> app.confidence, category |-> app.category,
   aiDetected |-> app.aiDetected]

suspiciousViolation(activity) ==
  [type |-> "SUSPICIOUS_ACTIVITY", severity |-> activity.severity,
   details |-> <<activity.name, activity.pid, activity.reason>>,
   confidence |-> activity.confidence, category |-> "none",
   aiDetected |-> activity.aiDetected]

networkViolation(threat) ==
  [type |-> "SUSPICIOUS_NETWORK_ACTIVITY", severity |-> threat.severity,
   details |-> <<threat.category, threat.domain>>,
   confidence |-> 85, category |-> threat.category, aiDetected |-> FALSE]

browserViolation(browser) ==
  [type |-> "SUSPICIOUS_BROWSER_ACTIVITY", severity |-> browser.threat_level,
   details |-> <<browser.browser, browser.count>>,
   confidence |-> 70, category |-> "none", aiDetected |-> FALSE]

anomalyViolation(anomaly, category) ==
  [type |-> anomaly.type, severity |-> anomaly.severity,
   details |-> <<anomaly.type>>,
   confidence |-> anomaly.confidence, category |-> category,
   aiDetected |-> TRUE]

emptyReport(sessionId, timestamp) ==
  [timestamp |-> timestamp,
   severity |-> "CLEAN",
   violations |-> <<>>,
   summary |-> [totalViolations |-> 0, criticalViolations |-> 0,
                highViolations |-> 0, mediumViolations |-> 0,
                lowViolations |-> 0],
   aiInsights |-> [overallRiskScore |-> 0, confidence |-> 0,
                   behaviorAnalysis |-> <<>>, biometricAnalysis |-> <<>>,
                   recommendations |-> <<>>],
   sessionId |-> sessionId]

\* one forEach: push each violation, count it, update the severity
pushAll(report, violations, severityAfter(_, _)) ==
  LET f[i \in 0..Len(violations)] ==
        IF i = 0 THEN report
        ELSE [f[i - 1] EXCEPT
                !.violations = Append(@, violations[i]),
                !.summary = countViolation(@, violations[i].severity),
                !.severity = severityAfter(@, violations[i].severity)]
  IN  f[Len(violations)]

mapSeq(s, Op(_)) == [k \in 1..Len(s) |-> Op(s[k])]

recommendationsFor(overallRiskScore, criticalViolations) ==
  (IF overallRiskScore > 100
     THEN <<"IMMEDIATE INTERVENTION REQUIRED",
            "Consider terminating interview session">>
   ELSE IF overallRiskScore > 50
     THEN <<"Increase monitoring frequency",
            "Enable additional security measures">>
   ELSE <<>>)
  \o (IF criticalViolations > 0
        THEN <<"Critical violations detected - manual review required">>
        ELSE <<>>)

\* the report after the four forEach over the process results
processViolations(results, sessionId, timestamp) ==
  pushAll(
    pushAll(
      pushAll(
        pushAll(emptyReport(sessionId, timestamp),
                mapSeq(results.unauthorized, unauthorizedViolation),
                severityAfterUnauthorized),
        mapSeq(results.suspicious, suspiciousViolation),
        severityAfterSuspicious),
      mapSeq(results.networkThreats.suspiciousConnections, networkViolation),
      severityAfterNetwork),
    mapSeq(results.browserInstances, browserViolation),
    severityAfterBrowser)

\* if (behaviorData) { ... }
behaviorViolations(report, behaviorAnalysis) ==
  pushAll([report EXCEPT !.aiInsights.behaviorAnalysis = <<behaviorAnalysis>>],
          mapSeq(behaviorAnalysis.anomalies,
                 LAMBDA a : anomalyViolation(a, "behavior")),
          severityAfterAnomaly)

\* if (biometricData) { ... }
biometricViolations(report, biometricAnalysis) ==
  pushAll([report EXCEPT !.aiInsights.biometricAnalysis = <<biometricAnalysis>>],
          mapSeq(biometricAnalysis.anomalies,
                 LAMBDA a : anomalyViolation(a, "biometric")),
          severityAfterAnomaly)

\* (adding 0.05 per AI-detected violation without the cap)
withInsightsUncapped(report, overallRiskScore, confidence) ==
  [report EXCEPT
     !.aiInsights.overallRiskScore = overallRiskScore,
     !.aiInsights.confidence =
       confidence
       + Len(SelectSeq(report.violations, LAMBDA v : v.aiDetected)) * 5,
     !.aiInsights.recommendations =
       recommendationsFor(overallRiskScore,
                          report.summary.criticalViolations)]

\* "Calculate overall AI insights" and the recommendations
withInsights(report, overallRiskScore, confidence) ==
  [report EXCEPT
     !.aiInsights.overallRiskScore = overallRiskScore,
     !.aiInsights.confidence =
       Min(98, confidence
               + Len(SelectSeq(report.violations,
                               LAMBDA v : v.aiDetected)) * 5),
     !.aiInsights.recommendations =
       recommendationsFor(overallRiskScore,
                          report.summary.criticalViolations)]

\* "Update session tracking": the record pushed for the finished report
trackedRecord(report, sessionId) ==
  IF sessionId # ""
    THEN <<[timestamp |-> report.timestamp,
            severity |-> report.severity,
            violationCount |-> report.summary.totalViolations,
            riskScore |-> report.aiInsights.overallRiskScore]>>
    ELSE <<>>

\* the try block ran to its end
finished(report, sessionId) ==
  [report |-> report, tracked |-> trackedRecord(report, sessionId),
   threw |-> FALSE]

\* the catch block: the report as built so far, nothing tracked
caught(report) == [report |-> report, tracked |-> <<>>, threw |-> TRUE]

\* the try block from `if (biometricData)` on
fromBiometric(report, results, behaviorRisk, biometricData, sessionId) ==
  IF biometricThrows(biometricData) THEN caught(report)
  ELSE finished(
         withInsights(
           IF biometricData = <<>> THEN report
           ELSE biometricViolations(report,
                                    analyzeBiometricData(biometricData)),
           results.aiAnalysis.riskScore + behaviorRisk
           + (IF biometricData = <<>> THEN 0
              ELSE analyzeBiometricData(biometricData).riskScore),
           results.aiAnalysis.confidence),
         sessionId)

\* (adding the tab-switching base score when no behavior data is given)
fromBehaviorDefaultScore(report, results, behaviorData, biometricData, sessionId) ==
  IF behaviorThrows(behaviorData) THEN caught(report)
  ELSE fromBiometric(
         IF behaviorData = <<>> THEN report
         ELSE behaviorViolations(report, analyzeBehaviorMetrics(behaviorData)),
         results,
         IF behaviorData = <<>> THEN 10
         ELSE analyzeBehaviorMetrics(behaviorData).riskScore,
         biometricData, sessionId)

\* the try block from `if (behaviorData)` on
fromBehavior(report, results, behaviorData, biometricData, sessionId) ==
  IF behaviorThrows(behaviorData) THEN caught(report)
  ELSE fromBiometric(
         IF behaviorData = <<>> THEN report
         ELSE behaviorViolations(report, analyzeBehaviorMetrics(behaviorData)),
         results,
         IF behaviorData = <<>> THEN 0
         ELSE analyzeBehaviorMetrics(behaviorData).riskScore,
         biometricData, sessionId)

\* The body of generateViolationReport.  The whole body is one try block:
\* an exception leaves the report as built so far and skips the rest,
\* the session tracking included.  Result: the report returned and, in
\* `tracked`, the records pushed to sessionViolations.get(sessionId).
generateViolationReport(results, behaviorData, biometricData, sessionId, timestamp) ==
  fromBehavior(processViolations(results, sessionId, timestamp), results, behaviorData, biometricData, sessionId)
----------------------------------------------------------------------------
(* Inputs *)

MaxProcs == 2
MaxLines == 2
MaxAttentionScore == 100

\* process observations, as (name, command line)
ProcessPool == {
  [name |-> <<"c","h","r","o","m","e",".","e","x","e">>,
   cmd |-> <<>>],
  [name |-> <<"E","l","e","c","t","r","o","n">>,
   cmd |-> <<"e","l","e","c","t","r","o","n"," ","m","a","i","n",".","j","s">>],
  [name |-> <<"e","l","e","c","t","r","o","n">>,
   cmd |-> <<"a","p","p",".","a","s","a","r">>],
  [name |-> <<"n","o","d","e">>,
   cmd |-> <<"n","o","d","e"," ","s","e","r","v","e","r",".","m","j","s">>],
  [name |-> <<"N","O","D","E",".","E","X","E">>,
   cmd |-> <<>>],
  [name |-> <<"p","y","t","h","o","n">>,
   cmd |-> <<"s","s","h"," ","x">>],
  [name |-> <<"n","o","t","e","s">>,
   cmd |-> <<>>],
  [name |-> <<"c","u","r","l">>,
   cmd |-> <<"p","r","o","x","y">>],
  [name |-> <<"w","g","e","t">>,
   cmd |-> <<"c","h","e","a","t">>],
  [name |-> <<"z","o","o","m",".","e","x","e">>,
   cmd |-> <<>>],
  [name |-> <<"t","e","a","m","v","i","e","w","e","r",".","e","x","e">>,
   cmd |-> <<>>],
  [name |-> <<>>,
   cmd |-> <<"h","a","c","k">>]
}

\* psList answers: up to MaxProcs observations, the pid is the position
ProcessLists ==
  UNION {[1..n -> ProcessPool] : n \in 0..MaxProcs}

withPids(list) ==
  [i \in 1..Len(list) |->
     [pid |-> i, name |-> list[i].name, cmd |-> list[i].cmd]]

\* lines printed by the connection listing
LinePool == {
  <<"1",".","2",".","3",".","4"," ","g","i","t","h","u","b",".","c","o","m">>,
  <<":",":","1"," ","g","i","t","h","u","b",".","c","o","m">>,
  <<"1","0",".","0",".","0",".","1"," ","G","i","t","H","u","b",".","C","o","m">>,
  <<"1","2","7",".","0",".","0",".","1"," ","x">>,
  <<" "," ">>,
  <<"a","1",".","2",".","3",".","4"," ","z","o","o","m",".","u","s">>,
  <<"9",".","9",".","9",".","9"," ","c","h","e","g","g",".","c","o","m"," ","z","o","o","m",".","u","s">>,
  <<"1",".","2",".","3"," ","c","l","a","u","d","e",".","a","i">>
}

Listings ==
  {[failed |-> TRUE, lines |-> <<>>]}
  \cup {[failed |-> FALSE, lines |-> l] :
          l \in UNION {[1..n -> LinePool] : n \in 0..MaxLines}}

BehaviorInputs ==
  {<<>>,
   <<[tabSwitches |-> 12, rightClicks |-> 0, idleTime |-> 0,
      keystrokes |-> 0, unconvertible |-> {}]>>,
   <<[tabSwitches |-> 6, rightClicks |-> 4, idleTime |-> 60001,
      keystrokes |-> 501, unconvertible |-> {}]>>,
   <<[tabSwitches |-> 0, rightClicks |-> 0, idleTime |-> 0,
      keystrokes |-> 0, unconvertible |-> {"tabSwitches"}]>>}

BiometricInputs ==
  {<<>>}
  \cup {<<[faceDetected |-> f, attentionScore |-> a, unconvertible |-> {}]>> :
          f \in BOOLEAN, a \in 0..MaxAttentionScore}
  \cup {<<[faceDetected |-> TRUE, attentionScore |-> 0,
           unconvertible |-> {"attentionScore"}]>>}
ReportProcessPool ==
  {p \in ProcessPool :
     p.name \in {<<"c","h","r","o","m","e",".","e","x","e">>,
                 <<"E","l","e","c","t","r","o","n">>,
                 <<"w","g","e","t">>,
                 <<"z","o","o","m",".","e","x","e">>,
                 <<"n","o","t","e","s">>}}

ReportProcessLists ==
  UNION {[1..n -> ReportProcessPool] : n \in 0..MaxProcs}

ReportListings ==
  {l \in Listings :
     \/ l.failed
     \/ l.lines = <<>>
     \/ /\ Len(l.lines) = 1
        /\ \/ includes(l.lines[1], <<"1",".","2",".","3",".","4"," ">>)
           \/ includes(l.lines[1], <<"9",".","9",".","9",".","9"," ">>)}

ReportBiometricInputs ==
  {b \in BiometricInputs :
     \/ b = <<>>
     \/ b[1].unconvertible # {}
     \/ ~b[1].faceDetected /\ b[1].attentionScore = 40}

----------------------------------------------------------------------------
(* The registry before any request *)

\* the session ids in use: one sent by a client and the one that
\* crypto.randomUUID() hands to a check without the x-session-id header
ClientId == "s1"
GeneratedId == "uuid"
SessionIds == {ClientId, GeneratedId}

NoResponse ==
  [endpoint |-> "none", code |-> 0, status |-> "none", sessionId |-> "",
   severity |-> <<>>, report |-> <<>>, session |-> <<>>]

NoRequest ==
  [request |-> [id |-> 0, endpoint |-> "none", sessionId |-> "",
                behaviorMetrics |-> <<>>, biometricData |-> <<>>,
                securityScore |-> <<>>],
   psFailed |-> FALSE, listingFailed |-> FALSE]

RegistryInit ==
  /\ running = TRUE
  /\ now = 0
  /\ activeSessions = <<>>
  /\ sessionViolations = <<>>
  /\ inflight = {}
  /\ nextReq = 0
  /\ response = NoResponse
  /\ handled = NoRequest
  /\ served = [id \in SessionIds |-> <<>>]
  /\ alone = [id \in SessionIds |-> <<>>]

registryVars == <<isDev, running, now, activeSessions, sessionViolations,
                  inflight, nextReq, response, handled, served, alone>>

----------------------------------------------------------------------------
(* The analyzers and the aggregator as functions of their arguments *)

\* analyzeBiometricData(arg)
InitBiometric ==
  /\ RegistryInit
  /\ isDev \in BOOLEAN
  /\ arg \in {b \in BiometricInputs : ~biometricThrows(b)}
  /\ ret = <<>>

CallBiometric ==
  /\ ret = <<>>
  /\ ret' = <<analyzeBiometricData(arg)>>
  /\ UNCHANGED <<registryVars, arg>>

NextBiometric == CallBiometric

SpecBiometric == InitBiometric /\ [][NextBiometric]_vars

\* checkNetworkConnections() on the listing arg
InitNetwork ==
  /\ RegistryInit
  /\ isDev \in BOOLEAN
  /\ arg \in Listings
  /\ ret = <<>>

CallNetwork ==
  /\ ret = <<>>
  /\ ret' = <<checkNetworkConnections(arg)>>
  /\ UNCHANGED <<registryVars, arg>>

NextNetwork == CallNetwork

SpecNetwork == InitNetwork /\ [][NextNetwork]_vars

\* analyzeProcesses() on a psList answer, then generateViolationReport
InitClassify ==
  /\ RegistryInit
  /\ isDev \in BOOLEAN
  /\ arg \in {[psFailed |-> FALSE, processes |-> withPids(l),
               listing |-> [failed |-> TRUE, lines |-> <<>>]] :
                l \in ProcessLists}
  /\ ret = <<>>

\* the results of a scan with the report generated from them
classified(results, timestamp) ==
  [results |-> results,
   report |-> generateViolationReport(results, <<>>, <<>>, "s1",
                                      timestamp).report]

CallClassify ==
  /\ ret = <<>>
  /\ ret' = <<classified(analyzeProcesses(arg, isDev).results[1], now)>>
  /\ UNCHANGED <<registryVars, arg>>

NextClassify == CallClassify

SpecClassify == InitClassify /\ [][NextClassify]_vars

\* generateViolationReport(results, behaviorData, biometricData, sessionId)
InitReport ==
  /\ RegistryInit
  /\ isDev \in BOOLEAN
  /\ arg \in [snapshot : {[psFailed |-> FALSE, processes |-> withPids(l),
                           listing |-> c] :
                            l \in ReportProcessLists, c \in ReportListings},
              behaviorData : BehaviorInputs,
              biometricData : ReportBiometricInputs,
              sessionId : {"", "s1"}]
  /\ ret = <<>>

\* the results of a scan with what generateViolationReport makes of them
scanReport(results, request, timestamp) ==
  [results |-> results]
  @@ generateViolationReport(results, request.behaviorData,
                             request.biometricData, request.sessionId,
                             timestamp)

CallReport ==
  /\ ret = <<>>
  /\ ret' = <<scanReport(analyzeProcesses(arg.snapshot, isDev).results[1],
                         arg, now)>>
  /\ UNCHANGED <<registryVars, arg>>

NextReport == CallReport

SpecReport == InitReport /\ [][NextReport]_vars

----------------------------------------------------------------------------
(* Properties of the analyzers and the aggregator *)

maxSeverity(violations) ==
  LET all == {"CLEAN"} \cup {violations[k].severity : k \in 1..Len(violations)}
  IN  CHOOSE s \in all : \A t \in all : SeverityRank(t) <= SeverityRank(s)

hasAnomaly(anomalies, type, severity) ==
  \E k \in 1..Len(anomalies) :
    anomalies[k].type = type /\ anomalies[k].severity = severity

hasType(anomalies, type) ==
  \E k \in 1..Len(anomalies) : anomalies[k].type = type

\* C1: the severity of every report produced by generateViolationReport is
\* the maximum severity among its violations (LOW < MEDIUM < HIGH <
\* CRITICAL), and it is CLEAN exactly when the report has no violation.
C1_SeverityIsMaximum ==
  ret # <<>> =>
    /\ ret[1].report.severity = maxSeverity(ret[1].report.violations)
    /\ (ret[1].report.severity = "CLEAN") <=> (ret[1].report.violations = <<>>)

\* C2: analyzeBiometricData applies the attention tiers exclusively: below 50
\* it emits CRITICAL_ATTENTION_SCORE (HIGH, 40) and no LOW_ATTENTION_SCORE,
\* from 50 to below 70 LOW_ATTENTION_SCORE (MEDIUM, 20); an undetected face
\* adds FACE_NOT_DETECTED (HIGH, 30); the risk score is the sum of these.
C2_AttentionTiersExclusive ==
  (ret # <<>> /\ arg # <<>>) =>
    LET b == arg[1]
        r == ret[1]
    IN  /\ b.attentionScore < 50 =>
             /\ hasAnomaly(r.anomalies, "CRITICAL_ATTENTION_SCORE", "HIGH")
             /\ ~hasType(r.anomalies, "LOW_ATTENTION_SCORE")
        /\ (b.attentionScore >= 50 /\ b.attentionScore < 70) =>
             /\ hasAnomaly(r.anomalies, "LOW_ATTENTION_SCORE", "MEDIUM")
             /\ ~hasType(r.anomalies, "CRITICAL_ATTENTION_SCORE")
        /\ ~b.faceDetected <=> hasAnomaly(r.anomalies, "FACE_NOT_DETECTED", "HIGH")
        /\ r.riskScore =
             (IF b.faceDetected THEN 0 ELSE 30)
             + (IF b.attentionScore < 50 THEN 40
                ELSE IF b.attentionScore < 70 THEN 20 ELSE 0)

\* the name equals a catalog signature name, case-insensitively
matchesSignature(name) ==
  \E i \in 1..Len(unauthorizedApps[isDev]) :
    toLowerCase(name) = toLowerCase(unauthorizedApps[isDev][i].name)

\* the number of UNAUTHORIZED_APPLICATION findings of the report for a pid
findingsFor(report, pid) ==
  Cardinality({k \in 1..Len(report.violations) :
                 /\ report.violations[k].type = "UNAUTHORIZED_APPLICATION"
                 /\ report.violations[k].details[2] = pid})

\* the server's own process: node or node.exe running server.mjs
ownProcess(proc) ==
  /\ toLowerCase(proc.name) \in {<<"n","o","d","e">>,
                                 <<"n","o","d","e",".","e","x","e">>}
  /\ includes(proc.cmd, <<"s","e","r","v","e","r",".","m","j","s">>)

\* C3 as stated: every process whose name case-insensitively equals a
\* catalog signature name yields exactly one UNAUTHORIZED_APPLICATION
\* finding, and every other process yields none.
C3_OneFindingPerMatch ==
  ret # <<>> =>
    \A i \in 1..Len(arg.processes) :
      findingsFor(ret[1].report, arg.processes[i].pid) =
        IF matchesSignature(arg.processes[i].name) THEN 1 ELSE 0

\* C3 amended: the same, except that in development mode the server's own
\* process (node or node.exe whose command line contains server.mjs) yields
\* no finding although its name is in the catalog.
C3_OneFindingPerMatchExceptOwn ==
  ret # <<>> =>
    \A i \in 1..Len(arg.processes) :
      findingsFor(ret[1].report, arg.processes[i].pid) =
        IF /\ matchesSignature(arg.processes[i].name)
           /\ ~(isDev /\ ownProcess(arg.processes[i]))
          THEN 1 ELSE 0

\* a snapshot with the server's own process next to a process whose name
\* differs from its signature only by case, classified in development mode
C3_Witness ==
  /\ ret # <<>>
  /\ isDev
  /\ \E i, j \in 1..Len(arg.processes) :
       /\ ownProcess(arg.processes[i])
       /\ findingsFor(ret[1].report, arg.processes[i].pid) = 0
       /\ arg.processes[j].name = <<"N","O","D","E",".","E","X","E">>
       /\ findingsFor(ret[1].report, arg.processes[j].pid) = 1

\* C5: when the behavioral analysis fails inside generateViolationReport,
\* the report still holds the findings of the other sub-reports, the
\* biometric anomalies included, an overall risk score with the failed
\* contribution counted as zero, the recommendations, and the session
\* history record is still appended.
C5_OtherSubReportsSurvive ==
  (/\ ret # <<>>
   /\ behaviorThrows(arg.behaviorData)
   /\ ~biometricThrows(arg.biometricData)) =>
    LET report == ret[1].report
        biometric == analyzeBiometricData(arg.biometricData)
        score == ret[1].results.aiAnalysis.riskScore + biometric.riskScore
    IN  /\ \A k \in 1..Len(biometric.anomalies) :
             \E v \in 1..Len(report.violations) :
               /\ report.violations[v].type = biometric.anomalies[k].type
               /\ report.violations[v].category = "biometric"
        /\ Len(report.violations) >=
             Len(ret[1].results.unauthorized) + Len(ret[1].results.suspicious)
             + Len(biometric.anomalies)
        /\ report.aiInsights.overallRiskScore = score
        /\ report.aiInsights.recommendations =
             recommendationsFor(score, report.summary.criticalViolations)
        /\ arg.sessionId # "" => ret[1].tracked # <<>>

\* the catalog domain occurs, case-insensitively, in the line
occursIn(line, domain) == includes(toLowerCase(line), toLowerCase(domain))

reported(result, domain) ==
  \E k \in 1..Len(result.suspiciousConnections) :
    result.suspiciousConnections[k].domain = domain

\* every reported domain is reported once, with its catalog category and
\* severity
taggedOnce(result) ==
  \A k \in 1..Len(result.suspiciousConnections) :
    /\ \A m \in 1..Len(result.suspiciousConnections) :
         result.suspiciousConnections[m].domain =
           result.suspiciousConnections[k].domain => m = k
    /\ \E d \in 1..Len(suspiciousDomains) :
         result.suspiciousConnections[k] =
           [domain |-> suspiciousDomains[d].domain,
            category |-> suspiciousDomains[d].category,
            severity |-> suspiciousDomains[d].severity]

\* C6 as stated: a domain signature is reported as suspicious if and only
\* if the domain occurs, case-insensitively, as a substring of at least one
\* established-connection line; each reported domain appears once, tagged
\* with its catalog category and severity.
C6_ReportedIffSubstring ==
  (ret # <<>> /\ ~arg.failed) =>
    /\ \A d \in 1..Len(suspiciousDomains) :
         reported(ret[1], suspiciousDomains[d].domain) <=>
           \E k \in 1..Len(arg.lines) :
             occursIn(arg.lines[k], suspiciousDomains[d].domain)
    /\ taggedOnce(ret[1])

\* C6 amended: the line must also hold a dotted-quad IPv4 address (one to
\* three digits, four times, delimited by word boundaries); a line without
\* one never makes a domain suspicious.
C6_ReportedIffSubstringOfIpLine ==
  (ret # <<>> /\ ~arg.failed) =>
    /\ \A d \in 1..Len(suspiciousDomains) :
         reported(ret[1], suspiciousDomains[d].domain) <=>
           \E k \in 1..Len(arg.lines) :
             /\ ipMatch(arg.lines[k])
             /\ occursIn(arg.lines[k], suspiciousDomains[d].domain)
    /\ taggedOnce(ret[1])

\* a listing where one line names a domain in another case next to an
\* address, and one line names a domain without any IPv4 address
C6_Witness ==
  /\ ret # <<>>
  /\ ~arg.failed
  /\ \E k \in 1..Len(arg.lines) : \E d \in 1..Len(suspiciousDomains) :
       /\ ipMatch(arg.lines[k])
       /\ occursIn(arg.lines[k], suspiciousDomains[d].domain)
       /\ ~includes(arg.lines[k], suspiciousDomains[d].domain)
       /\ reported(ret[1], suspiciousDomains[d].domain)
  /\ \E k \in 1..Len(arg.lines) : \E d \in 1..Len(suspiciousDomains) :
       /\ ~ipMatch(arg.lines[k])
       /\ occursIn(arg.lines[k], suspiciousDomains[d].domain)
       /\ ~reported(ret[1], suspiciousDomains[d].domain)

----------------------------------------------------------------------------
(* Session registry and request handlers *)

MaxRequests == 2

\* what a request may find on the host when its scan runs
Snapshots ==
  {[psFailed |-> TRUE, processes |-> <<>>,
    listing |-> [failed |-> TRUE, lines |-> <<>>]],
   [psFailed |-> FALSE, processes |-> <<>>,
    listing |-> [failed |-> TRUE, lines |-> <<>>]],
   [psFailed |-> FALSE,
    processes |-> withPids(<<[name |-> <<"c","h","r","o","m","e",".","e","x","e">>,
                             cmd |-> <<>>]>>),
    listing |-> [failed |-> FALSE, lines |-> <<>>]],
   [psFailed |-> FALSE,
    processes |-> withPids(<<[name |-> <<"E","l","e","c","t","r","o","n">>,
                             cmd |-> <<"e","l","e","c","t","r","o","n"," ",
                                       "m","a","i","n",".","j","s">>]>>),
    listing |-> [failed |-> FALSE,
                 lines |-> <<<<"1",".","2",".","3",".","4"," ",
                               "g","i","t","h","u","b",".","c","o","m">>>>]]}

\* analyzeProcesses() on each of these snapshots, under either mode
hostScans ==
  [snapshot \in Snapshots |->
     [dev \in BOOLEAN |-> analyzeProcesses(snapshot, dev)]]

\* bodies of POST /api/monitor-processes
MonitorBodies ==
  {[behaviorMetrics |-> <<>>, biometricData |-> <<>>, securityScore |-> <<>>],
   [behaviorMetrics |->
      <<[tabSwitches |-> 12, rightClicks |-> 0, idleTime |-> 0,
         keystrokes |-> 0, unconvertible |-> {}]>>,
    biometricData |->
      <<[faceDetected |-> FALSE, attentionScore |-> 40,
         unconvertible |-> {}]>>,
    securityScore |-> <<85>>],
   [behaviorMetrics |->
      <<[tabSwitches |-> 0, rightClicks |-> 0, idleTime |-> 0,
         keystrokes |-> 0, unconvertible |-> {"tabSwitches"}]>>,
    biometricData |->
      <<[faceDetected |-> FALSE, attentionScore |-> 40,
         unconvertible |-> {}]>>,
    securityScore |-> <<85>>]}

\* crypto.randomUUID() has already handed out GeneratedId
uuidIssued ==
  \/ \E r \in inflight : r.sessionId = GeneratedId
  \/ served[GeneratedId] # <<>>
  \/ GeneratedId \in DOMAIN sessionViolations

\* Map.prototype.set
mapSet(map, key, value) ==
  [k \in DOMAIN map \cup {key} |-> IF k = key THEN value ELSE map[k]]

\* sessionViolations.get(sessionId) || []
historyOf(violations, sessionId) ==
  IF sessionId \in DOMAIN violations THEN violations[sessionId] ELSE <<>>

\* (one array shared by every session)
trackViolationsShared(violations, sessionId, tracked) ==
  IF tracked = <<>> THEN violations
  ELSE [k \in DOMAIN violations \cup {sessionId} |->
          historyOf(violations, k) \o tracked]

\* "Update session tracking" of generateViolationReport, given the records
\* it pushes (none when there is no session id or the body threw before)
trackViolations(violations, sessionId, tracked) ==
  IF tracked = <<>> THEN violations
  ELSE mapSet(violations, sessionId,
              historyOf(violations, sessionId) \o tracked)

\* (comparing the severity with 'clean')
statusOfLowerCase(severity) ==
  IF severity = "clean" THEN "clear" ELSE "violations_detected"

\* status of the response of check-processes and monitor-processes
statusOf(severity) ==
  IF severity = "CLEAN" THEN "clear" ELSE "violations_detected"

\* a session record as a response shows it: its violationHistory is the
\* array of sessionViolations when the record shares it
sessionView(sessions, violations, sessionId) ==
  IF sessionId \in DOMAIN sessions
    THEN <<[startTime |-> sessions[sessionId].startTime,
            lastCheck |-> sessions[sessionId].lastCheck,
            securityScore |-> sessions[sessionId].securityScore,
            connectionDetails |-> sessions[sessionId].connectionDetails,
            interviewStarted |-> sessions[sessionId].interviewStarted,
            violationHistory |->
              IF sessions[sessionId].violationHistory = "shared"
                THEN historyOf(violations, sessionId) ELSE <<>>]>>
    ELSE <<>>

\* the message of an error answer
errorMessage(endpoint, code) ==
  IF code = 400 THEN "Session ID required for monitoring"
  ELSE IF code = 401 THEN "Invalid or expired session"
  ELSE IF code = 404 THEN "Session not found"
  ELSE IF endpoint = "check" THEN "Failed to check running processes"
  ELSE "Failed to monitor running processes"

errorResponse(endpoint, code, sessionId) ==
  [endpoint |-> endpoint, code |-> code, status |-> "error",
   message |-> errorMessage(endpoint, code),
   severity |-> <<>>, sessionId |-> sessionId, report |-> <<>>,
   session |-> <<>>]

\* what a completed call returned, as the history should record it
servedEntry(r, code, report) ==
  [id |-> r.id, endpoint |-> r.endpoint, code |-> code,
   record |-> IF report = <<>> THEN <<>>
              ELSE <<[timestamp |-> report[1].timestamp,
                      severity |-> report[1].severity,
                      violationCount |-> report[1].summary.totalViolations,
                      riskScore |-> report[1].aiInsights.overallRiskScore]>>]

Init ==
  /\ RegistryInit
  /\ isDev \in BOOLEAN
  /\ arg = <<>>
  /\ ret = <<>>

\* GET /api/check-processes up to `await analyzeProcesses()`
BeginCheck(header) ==
  /\ running
  /\ nextReq < MaxRequests
  /\ header = "" => ~uuidIssued
  /\ nextReq' = nextReq + 1
  /\ inflight' = inflight \cup
       {[id |-> nextReq + 1, endpoint |-> "check",
         sessionId |-> IF header # "" THEN header ELSE GeneratedId,
         behaviorMetrics |-> <<>>, biometricData |-> <<>>,
         securityScore |-> <<>>]}
  /\ UNCHANGED <<isDev, running, now, activeSessions, sessionViolations,
                 response, handled, served, alone, arg, ret>>

\* (starting the scan without testing the x-session-id header)
BeginMonitorUnchecked(header, body) ==
  /\ running
  /\ nextReq < MaxRequests
  /\ nextReq' = nextReq + 1
  /\ inflight' = inflight \cup
       {[id |-> nextReq + 1, endpoint |-> "monitor",
         sessionId |-> header,
         behaviorMetrics |-> body.behaviorMetrics,
         biometricData |-> body.biometricData,
         securityScore |-> body.securityScore]}
  /\ UNCHANGED response
  /\ UNCHANGED <<isDev, running, now, activeSessions, sessionViolations,
                 handled, served, alone, arg, ret>>

\* POST /api/monitor-processes up to `await analyzeProcesses()`, or its
\* 400 answer when the x-session-id header is missing
BeginMonitor(header, body) ==
  /\ running
  /\ nextReq < MaxRequests
  /\ nextReq' = nextReq + 1
  /\ IF header = ""
       THEN /\ response' = errorResponse("monitor", 400, "")
            /\ UNCHANGED inflight
       ELSE /\ inflight' = inflight \cup
                 {[id |-> nextReq + 1, endpoint |-> "monitor",
                   sessionId |-> header,
                   behaviorMetrics |-> body.behaviorMetrics,
                   biometricData |-> body.biometricData,
                   securityScore |-> body.securityScore]}
            /\ UNCHANGED response
  /\ UNCHANGED <<isDev, running, now, activeSessions, sessionViolations,
                 handled, served, alone, arg, ret>>

\* activeSessions after the handler's update: check-processes sets the
\* record whole, monitor-processes updates a record only if there is one
touchSession(sessions, r, timestamp, tracked) ==
  IF r.endpoint = "check"
    THEN mapSet(sessions, r.sessionId,
                [startTime |-> timestamp, lastCheck |-> timestamp,
                 securityScore |-> <<>>,
                 connectionDetails |-> <<>>,
                 interviewStarted |-> <<>>,
                 violationHistory |->
                   IF tracked THEN "shared" ELSE "detached"])
  ELSE IF r.sessionId \in DOMAIN sessions
    THEN [sessions EXCEPT ![r.sessionId] =
            [@ EXCEPT !.lastCheck = timestamp,
                      !.securityScore = r.securityScore,
                      !.violationHistory =
                        IF tracked THEN "shared" ELSE "detached"]]
  ELSE sessions

\* res.json({...}) of either handler
Respond(r, violationReport, tracked, violations, sessions) ==
  /\ sessionViolations' = violations
  /\ activeSessions' = sessions
  /\ response' =
       [endpoint |-> r.endpoint, code |-> 200,
        status |-> statusOf(violationReport.severity),
        severity |-> <<violationReport.severity>>,
        sessionId |-> r.sessionId,
        report |-> <<violationReport>>,
        session |-> IF r.endpoint = "monitor"
                      THEN sessionView(sessions, violations, r.sessionId)
                      ELSE <<>>]
  /\ served' = [served EXCEPT ![r.sessionId] =
                  Append(@, servedEntry(r, 200, <<violationReport>>))]
  /\ alone' = [alone EXCEPT ![r.sessionId] = @ \o tracked]

\* the session update, once generateViolationReport has tracked the report
UpdateSession(r, generated, violations) ==
  Respond(r, generated.report, generated.tracked, violations,
          touchSession(activeSessions, r, now,
                       r.sessionId \in DOMAIN violations))

\* generateViolationReport has returned `generated`
Report(r, generated) ==
  UpdateSession(r, generated,
                trackViolations(sessionViolations, r.sessionId,
                                generated.tracked))

\* analyzeProcesses has settled with analysisResults
Settle(r, analysisResults) ==
  IF analysisResults.threw
    THEN /\ response' = errorResponse(r.endpoint, 500, "")
         /\ served' = [served EXCEPT ![r.sessionId] =
                         Append(@, servedEntry(r, 500, <<>>))]
         /\ UNCHANGED <<activeSessions, sessionViolations, alone>>
    ELSE Report(r, generateViolationReport(
                     analysisResults.results[1], r.behaviorMetrics,
                     r.biometricData, r.sessionId, now))

\* the rest of either handler, run when analyzeProcesses settles: the scan
\* sampled `snapshot`
Complete(r, snapshot) ==
  /\ running
  /\ r \in inflight
  /\ inflight' = inflight \ {r}
  /\ now' = now + 1
  /\ handled' = [request |-> r, psFailed |-> snapshot.psFailed,
                 \* the listing is only run once psList has answered
                 listingFailed |-> ~snapshot.psFailed /\ snapshot.listing.failed]
  /\ Settle(r, hostScans[snapshot][isDev])
  /\ UNCHANGED <<isDev, running, nextReq, arg, ret>>

\* GET /api/session/:sessionId
GetSession(sessionId) ==
  /\ running
  /\ response' =
       IF sessionId \notin DOMAIN activeSessions
         THEN errorResponse("session", 404, sessionId)
         ELSE [endpoint |-> "session", code |-> 200, status |-> "success",
               severity |-> <<>>, sessionId |-> sessionId,
               report |-> <<>>,
               session |->
                 <<[sessionView(activeSessions, sessionViolations,
                                sessionId)[1]
                      EXCEPT !.violationHistory =
                        historyOf(sessionViolations, sessionId)]>>]
  /\ UNCHANGED <<isDev, running, now, activeSessions, sessionViolations,
                 inflight, nextReq, handled, served, alone, arg, ret>>

\* GET /api/connection-details
ConnectionDetails(header) ==
  /\ running
  /\ IF header = "" \/ header \notin DOMAIN activeSessions
       THEN /\ response' = errorResponse("connection", 401, header)
            /\ UNCHANGED activeSessions
       ELSE /\ activeSessions' =
                 [activeSessions EXCEPT ![header] =
                    [@ EXCEPT !.connectionDetails =
                                <<[roomName |-> header, timestamp |-> now]>>,
                              !.interviewStarted = <<now>>]]
            /\ response' =
                 [endpoint |-> "connection", code |-> 200,
                  status |-> "none", severity |-> <<>>,
                  sessionId |-> header, report |-> <<>>,
                  session |-> <<>>]
  /\ UNCHANGED <<isDev, running, now, sessionViolations, inflight, nextReq,
                 handled, served, alone, arg, ret>>

\* the SIGINT and SIGTERM handlers: clear both maps and exit
Shutdown ==
  /\ running
  /\ running' = FALSE
  /\ activeSessions' = <<>>
  /\ sessionViolations' = <<>>
  /\ inflight' = {}
  /\ UNCHANGED <<isDev, now, nextReq, response, handled, served, alone,
                 arg, ret>>

Next ==
  \/ \E header \in {ClientId, ""} : BeginCheck(header)
  \/ \E header \in {ClientId, ""} : \E body \in MonitorBodies :
       BeginMonitor(header, body)
  \/ \E r \in inflight : \E snapshot \in Snapshots : Complete(r, snapshot)
  \/ \E sessionId \in SessionIds : GetSession(sessionId)
  \/ Shutdown

Spec == Init /\ [][Next]_vars

\* the registry with the connection-details endpoint in use as well
NextSession ==
  \/ Next
  \/ \E header \in {ClientId, ""} : ConnectionDetails(header)

SpecSession == Init /\ [][NextSession]_vars


----------------------------------------------------------------------------
(* Properties of the handlers and the registry *)

\* the last response answers the check or monitor call recorded in `handled`
scanAnswered ==
  /\ response.endpoint \in {"check", "monitor"}
  /\ response.code # 400

\* C4: when the process listing fails during a check-processes or
\* monitor-processes request, the request still completes with a report,
\* built from an empty process list, and not with an error response.
C4_ListingFailureRecovered ==
  (scanAnswered /\ handled.psFailed) =>
    /\ response.code = 200
    /\ response.report # <<>>
    /\ \A k \in 1..Len(response.report[1].violations) :
         response.report[1].violations[k].type \notin
           {"UNAUTHORIZED_APPLICATION", "SUSPICIOUS_ACTIVITY",
            "SUSPICIOUS_BROWSER_ACTIVITY"}

returnedRecords(sessionId) ==
  LET entries == SelectSeq(served[sessionId], LAMBDA e : e.record # <<>>)
  IN  [k \in 1..Len(entries) |-> entries[k].record[1]]

\* C8: the violation history of a session holds exactly one record per
\* completed check-processes or monitor-processes call that returned a
\* report, in completion order, with the timestamp, severity, violation
\* count and risk score of that report.
C8_HistoryMatchesReturnedReports ==
  running =>
    \A sessionId \in SessionIds :
      historyOf(sessionViolations, sessionId) = returnedRecords(sessionId)

\* what the registry holds for a session id
registryOf(sessions, violations, sessionId) ==
  <<sessionId \in DOMAIN sessions, sessionId \in DOMAIN violations,
    sessionView(sessions, violations, sessionId),
    historyOf(violations, sessionId)>>

\* C9: requests of different sessions interleave safely: what the registry
\* holds for a session changes only in a step that completes a request of
\* that session, and each session's history is the one a registry serving
\* that session alone would hold.
C9_SessionsIsolated ==
  /\ [](running =>
          \A sessionId \in SessionIds :
            historyOf(sessionViolations, sessionId) = alone[sessionId])
  /\ [][running' =>
          \A sessionId \in SessionIds :
            registryOf(activeSessions', sessionViolations', sessionId)
              # registryOf(activeSessions, sessionViolations, sessionId)
            => \E r \in inflight \ inflight' : r.sessionId = sessionId]_vars

\* the request completed last began before a request of the other session
\* that completed earlier, and both sessions have history
C9_Witness ==
  /\ running
  /\ \E sessionId \in SessionIds \ {handled.request.sessionId} :
       /\ \E k \in 1..Len(served[sessionId]) :
            served[sessionId][k].id > handled.request.id
       /\ historyOf(sessionViolations, sessionId) # <<>>
       /\ historyOf(sessionViolations, handled.request.sessionId) # <<>>

\* C10: GET /session/:id is not-found for a session id until a
\* check-processes call with that id has completed, and from then on it
\* returns that session with its current violation history.
C10_FoundOnceCheckCompleted ==
  (running /\ response.endpoint = "session") =>
    IF \E k \in 1..Len(served[response.sessionId]) :
         served[response.sessionId][k].endpoint = "check"
      THEN /\ response.code = 200
           /\ response.session[1].violationHistory =
                historyOf(sessionViolations, response.sessionId)
      ELSE response.code = 404

\* the same, counting only the check-processes calls answered with a report
C10_FoundOnceCheckSucceeded ==
  (running /\ response.endpoint = "session") =>
    IF \E k \in 1..Len(served[response.sessionId]) :
         /\ served[response.sessionId][k].endpoint = "check"
         /\ served[response.sessionId][k].code = 200
      THEN /\ response.code = 200
           /\ response.session[1].violationHistory =
                historyOf(sessionViolations, response.sessionId)
      ELSE response.code = 404

----------------------------------------------------------------------------
(* Browser instances: the extended server and the base server *)

\* The repository holds a second, earlier server whose analyzeProcesses
\* counts browsers with fixed thresholds; its definitions carry the
\* suffix Base.

isBrowserNameBase(name) ==
  /\ name # <<>>
  /\ \/ includes(toLowerCase(name), <<"c","h","r","o","m","e">>)
     \/ includes(toLowerCase(name), <<"f","i","r","e","f","o","x">>)
     \/ includes(toLowerCase(name), <<"s","a","f","a","r","i">>)
     \/ includes(toLowerCase(name), <<"e","d","g","e">>)

\* the keys the base server's forEach counts under, in process order
browserNamesBase(processes) ==
  LET counted == SelectSeq(processes,
                           LAMBDA proc : isBrowserNameBase(proc.name))
  IN  [k \in 1..Len(counted) |-> toLowerCase(counted[k].name)]

\* browserCounts after the forEach of the base server
browserCountsBase(processes) == countNames(browserNamesBase(processes))

\* the entries with count > 3
overThresholdBase(counts) == SelectSeq(counts, LAMBDA e : e.count > 3)

\* results.browserInstances of the base server
browserInstancesBase(over) ==
  [k \in 1..Len(over) |->
     [browser |-> over[k].browser,
      count |-> over[k].count,
      threat_level |-> IF over[k].count > 5 THEN "HIGH" ELSE "MEDIUM"]]

\* the violations the base server's generateViolationReport pushes for
\* results.browserInstances
browserViolationsBase(instances) ==
  [k \in 1..Len(instances) |->
     [type |-> "SUSPICIOUS_BROWSER_ACTIVITY",
      severity |-> instances[k].threat_level,
      details |-> <<instances[k].browser, instances[k].count>>]]

MaxInstances == 31

\* (the catalog has chrome.exe but not chrome: no other finding)
chromeProcess ==
  [name |-> <<"c","h","r","o","m","e">>, cmd |-> <<>>]

firefoxProcess ==
  [name |-> <<"F","i","r","e","f","o","x">>, cmd |-> <<>>]

\* a psList answer with the given numbers of chrome and Firefox
browserProcesses(chrome, firefox) ==
  withPids([i \in 1..(chrome + firefox) |->
              IF i <= chrome THEN chromeProcess ELSE firefoxProcess])

\* the browser violations of the extended server's report
browserViolationsOf(report) ==
  SelectSeq(report.violations,
            LAMBDA v : v.type = "SUSPICIOUS_BROWSER_ACTIVITY")

\* what each server's analyzeProcesses returns for a psList answer, as far
\* as the browsers go (the connection listing fails)
browserScan(processes, dev) ==
  [stage |-> "scanned",
   extended |-> processResults(processes,
                               checkNetworkConnections(
                                 [failed |-> TRUE, lines |-> <<>>]), dev),
   base |-> browserInstancesBase(
              overThresholdBase(browserCountsBase(processes)))]

\* the browser findings each server's generateViolationReport makes of them
browserReport(scan, timestamp) ==
  [stage |-> "reported",
   extended |->
     browserViolationsOf(
       generateViolationReport(scan.extended, <<>>, <<>>, "s1",
                               timestamp).report),
   base |-> browserViolationsBase(scan.base)]

InitBrowser ==
  /\ RegistryInit
  /\ isDev \in BOOLEAN
  /\ arg \in [chrome : 0..MaxInstances, firefox : {0, 4, 6}]
  /\ ret = <<>>

\* analyzeProcesses() of either server
ScanBrowsers ==
  /\ ret = <<>>
  /\ ret' = <<browserScan(browserProcesses(arg.chrome, arg.firefox), isDev)>>
  /\ UNCHANGED <<registryVars, arg>>

\* generateViolationReport(analysisResults) of either server
ReportBrowsers ==
  /\ ret # <<>>
  /\ ret[1].stage = "scanned"
  /\ ret' = <<browserReport(ret[1], now)>>
  /\ UNCHANGED <<registryVars, arg>>

NextBrowser == ScanBrowsers \/ ReportBrowsers

SpecBrowser == InitBrowser /\ [][NextBrowser]_vars

----------------------------------------------------------------------------
(* One process, with and without the main.js marker *)

\* process names: every name of the catalog, names that differ from a
\* catalog name by case, a name outside the catalog and a missing name
ProcessNames ==
  {unauthorizedApps[FALSE][i].name : i \in 1..Len(unauthorizedApps[FALSE])}
  \cup {<<"N","O","D","E",".","E","X","E">>,
        <<"E","l","e","c","t","r","o","n">>,
        <<"n","o","t","e","s">>,
        <<>>}

\* command lines: missing, or naming patterns of different severities
CommandLines ==
  {<<>>,
   <<"p","r","o","x","y">>,
   <<"s","s","h"," ","x">>,
   <<"a","p","p",".","a","s","a","r">>,
   <<"x"," ","O","p","e","n","A","I">>,
   <<"n","o","d","e"," ","s","e","r","v","e","r",".","m","j","s">>,
   <<"h","a","c","k"," ","c","h","e","a","t">>}

\* the same observation with the marker added to its command line
withMarker(proc) ==
  [proc EXCEPT !.cmd = @ \o <<" ","m","a","i","n",".","j","s">>]

\* analyzeProcesses and generateViolationReport on a psList answer that
\* holds this process only (the connection listing fails)
processFindings(proc, dev, timestamp) ==
  classified(processResults(<<proc>>,
                            checkNetworkConnections(
                              [failed |-> TRUE, lines |-> <<>>]), dev),
             timestamp)

InitProcess ==
  /\ RegistryInit
  /\ isDev \in BOOLEAN
  /\ arg \in [pid : {1}, name : ProcessNames, cmd : CommandLines]
  /\ ret = <<>>

CallProcess ==
  /\ ret = <<>>
  /\ ret' = <<[plain |-> processFindings(arg, isDev, now),
               marked |-> processFindings(withMarker(arg), isDev, now)]>>
  /\ UNCHANGED <<registryVars, arg>>

NextProcess == CallProcess

SpecProcess == InitProcess /\ [][NextProcess]_vars

\* ---------------------------------------------------------------------
\* The server's own process beside one other process.

\* names under which the node runtime is listed
OwnNames ==
  {<<"n","o","d","e">>, <<"n","o","d","e",".","e","x","e">>,
   <<"N","O","D","E",".","E","X","E">>, <<"N","o","d","e">>}

\* command lines that contain server.mjs
OwnCommandLines ==
  {<<"n","o","d","e"," ","s","e","r","v","e","r",".","m","j","s">>,
   <<"s","e","r","v","e","r",".","m","j","s"," ","h","a","c","k">>,
   <<"n","o","d","e"," ","-","e"," ","s","e","r","v","e","r",".","m","j","s">>}

\* the same command line naming server.cjs instead
otherScript(cmd) ==
  LET at == CHOOSE i \in 1..Len(cmd) :
              /\ i + 9 <= Len(cmd)
              /\ SubSeq(cmd, i, i + 9) =
                   <<"s","e","r","v","e","r",".","m","j","s">>
  IN  [cmd EXCEPT ![at + 7] = "c"]

\* psList answers with the process `own` followed by `neighbour`
besideNeighbour(own, neighbour) ==
  <<[pid |-> 1, name |-> own.name, cmd |-> own.cmd],
    [pid |-> 2, name |-> neighbour.name, cmd |-> neighbour.cmd]>>

\* psList answers with `neighbour` only, under the same pid
neighbourOnly(neighbour) ==
  <<[pid |-> 2, name |-> neighbour.name, cmd |-> neighbour.cmd]>>

\* the results and the report for these processes (no connection listing)
findingsOf(processes, dev, timestamp) ==
  classified(processResults(processes,
                            checkNetworkConnections(
                              [failed |-> TRUE, lines |-> <<>>]), dev),
             timestamp)

InitSelf ==
  /\ RegistryInit
  /\ isDev \in BOOLEAN
  /\ arg \in [own : [name : OwnNames, cmd : OwnCommandLines],
              neighbour : ProcessPool]
  /\ ret = <<>>

CallSelf ==
  /\ ret = <<>>
  /\ ret' = <<[present |->
                 findingsOf(besideNeighbour(arg.own, arg.neighbour),
                            isDev, now),
               absent |->
                 findingsOf(neighbourOnly(arg.neighbour), isDev, now),
               other |->
                 findingsOf(besideNeighbour(
                              [arg.own EXCEPT !.cmd = otherScript(@)],
                              arg.neighbour),
                            isDev, now)]>>
  /\ UNCHANGED <<registryVars, arg>>

NextSelf == CallSelf

SpecSelf == InitSelf /\ [][NextSelf]_vars

\* ---------------------------------------------------------------------
\* analyzeBehaviorMetrics(arg) over counters around its thresholds

MaxTabSwitches == 12
MaxRightClicks == 4

\* idle times in milliseconds, at and beside the one-minute threshold
IdleTimes == {0, 60000, 60001}

\* keystroke counts, at and beside 100 per 5-second interval
KeystrokeCounts == {0, 500, 501}

BehaviorMetrics ==
  {<<>>}
  \cup {<<[tabSwitches |-> t, rightClicks |-> r, idleTime |-> i,
           keystrokes |-> k, unconvertible |-> {}]>> :
          t \in 0..MaxTabSwitches, r \in 0..MaxRightClicks,
          i \in IdleTimes, k \in KeystrokeCounts}

InitBehavior ==
  /\ RegistryInit
  /\ isDev \in BOOLEAN
  /\ arg \in BehaviorMetrics
  /\ ret = <<>>

CallBehavior ==
  /\ ret = <<>>
  /\ ret' = <<analyzeBehaviorMetrics(arg)>>
  /\ UNCHANGED <<registryVars, arg>>

NextBehavior == CallBehavior

SpecBehavior == InitBehavior /\ [][NextBehavior]_vars

\* ---------------------------------------------------------------------
\* A scan that finds given numbers of processes of each kind, and the
\* report generated from it.

MaxHits == 2

\* one process of each kind: catalog categories cheating, development,
\* communication and ai_cheating, and a process outside the catalog whose
\* command line names a pattern
cheatingProcess ==
  [name |-> <<"e","l","e","c","t","r","o","n">>,
   cmd |-> <<"e","l","e","c","t","r","o","n"," ","m","a","i","n",".","j","s">>]
developmentProcess == [name |-> <<"n","o","d","e">>, cmd |-> <<>>]
communicationProcess ==
  [name |-> <<"z","o","o","m",".","e","x","e">>, cmd |-> <<>>]
otherProcess ==
  [name |-> <<"c","h","a","t","g","p","t",".","e","x","e">>, cmd |-> <<>>]
suspiciousProcess ==
  [name |-> <<"n","o","t","e","s">>, cmd |-> <<"p","r","o","x","y">>]

\* n observations of the process
copies(proc, n) == [k \in 1..n |-> proc]

\* the answer of psList for these numbers of processes
hitProcesses(hits) ==
  withPids(copies(cheatingProcess, hits.cheating)
           \o copies(developmentProcess, hits.development)
           \o copies(communicationProcess, hits.communication)
           \o copies(otherProcess, hits.other)
           \o copies(suspiciousProcess, hits.suspicious))

\* the connection listing: one line per threat
hitListing(hits) ==
  [failed |-> FALSE,
   lines |-> copies(<<"1",".","2",".","3",".","4"," ",
                      "g","i","t","h","u","b",".","c","o","m">>,
                    hits.threats)]

\* behavioral and biometric inputs of the report
ScoreBehaviorInputs ==
  {b \in BehaviorInputs : b = <<>> \/ b[1].tabSwitches # 6}

ScoreBiometricInputs ==
  {b \in BiometricInputs :
     \/ b = <<>>
     \/ /\ b[1].unconvertible = {}
        /\ ~b[1].faceDetected
        /\ b[1].attentionScore = 40}

\* analyzeProcesses() for these numbers of processes
hitScan(hits, dev) ==
  [stage |-> "scanned",
   results |-> processResults(hitProcesses(hits),
                              checkNetworkConnections(hitListing(hits)), dev)]

\* generateViolationReport on the results of the scan
hitReport(scan, request, timestamp) ==
  [stage |-> "reported"] @@ scanReport(scan.results, request, timestamp)

InitScore ==
  /\ RegistryInit
  /\ isDev \in BOOLEAN
  /\ arg \in [cheating : 0..MaxHits, development : 0..MaxHits,
              communication : 0..MaxHits, other : 0..1,
              suspicious : 0..1, threats : 0..1,
              behaviorData : ScoreBehaviorInputs,
              biometricData : ScoreBiometricInputs,
              sessionId : {"s1"}]
  /\ ret = <<>>

ScanHits ==
  /\ ret = <<>>
  /\ ret' = <<hitScan(arg, isDev)>>
  /\ UNCHANGED <<registryVars, arg>>

ReportHits ==
  /\ ret # <<>>
  /\ ret[1].stage = "scanned"
  /\ ret' = <<hitReport(ret[1], arg, now)>>
  /\ UNCHANGED <<registryVars, arg>>

NextScore == ScanHits \/ ReportHits

SpecScore == InitScore /\ [][NextScore]_vars

\* ---------------------------------------------------------------------
\* POST /api/terminate-processes

MaxPids == 3

\* process ids a client may list
Pids == {111, 222}

\* req.body.processIds: missing, not an array, or an array of ids
TerminateBodies ==
  {[processIds |-> kind, ids |-> <<>>] : kind \in {"missing", "object"}}
  \cup {[processIds |-> "array", ids |-> ids] :
          ids \in UNION {[1..n -> Pids] : n \in 0..MaxPids}}

\* the 400 answer to a body without an array of ids
terminateRejected ==
  [stage |-> "answered", code |-> 400, status |-> "error", next |-> 0,
   terminated |-> <<>>, failed |-> <<>>]

\* results before the loop, and the position of the loop
terminateStarted ==
  [stage |-> "looping", code |-> 0, status |-> "none", next |-> 1,
   terminated |-> <<>>, failed |-> <<>>]

\* (leaving the loop at the first kill command that throws)
attemptedUntilFailure(results, pid, succeeded) ==
  IF succeeded
    THEN [results EXCEPT !.next = @ + 1,
                         !.terminated = Append(@, pid)]
    ELSE [results EXCEPT !.next = MaxPids + 2,
                         !.failed = Append(@, [pid |-> pid,
                                               error |-> "Command failed"])]

\* one pass of the loop body for pid: the kill command succeeded or threw
attempted(results, pid, succeeded) ==
  IF succeeded
    THEN [results EXCEPT !.next = @ + 1,
                         !.terminated = Append(@, pid)]
    ELSE [results EXCEPT !.next = @ + 1,
                         !.failed = Append(@, [pid |-> pid,
                                               error |-> "Command failed"])]

InitTerminate ==
  /\ RegistryInit
  /\ isDev \in BOOLEAN
  /\ arg \in TerminateBodies
  /\ ret = <<>>

\* the handler up to the first await
BeginTerminate ==
  /\ ret = <<>>
  /\ ret' = IF arg.processIds # "array"
              THEN <<terminateRejected>> ELSE <<terminateStarted>>
  /\ UNCHANGED <<registryVars, arg>>

\* await execPromise(command) settles for the next pid
Kill(succeeded) ==
  /\ ret # <<>>
  /\ ret[1].stage = "looping"
  /\ ret[1].next <= Len(arg.ids)
  /\ ret' = <<attempted(ret[1], arg.ids[ret[1].next], succeeded)>>
  /\ UNCHANGED <<registryVars, arg>>

\* res.json({status: 'success', results, ...}) after the loop
AnswerTerminate ==
  /\ ret # <<>>
  /\ ret[1].stage = "looping"
  /\ ret[1].next > Len(arg.ids)
  /\ ret' = <<[ret[1] EXCEPT !.stage = "answered", !.code = 200,
                             !.status = "success"]>>
  /\ UNCHANGED <<registryVars, arg>>

NextTerminate ==
  \/ BeginTerminate
  \/ \E succeeded \in BOOLEAN : Kill(succeeded)
  \/ AnswerTerminate

SpecTerminate == InitTerminate /\ [][NextTerminate]_vars

----------------------------------------------------------------------------
(* Properties of the responses *)

\* the last response is the res.json of a check or monitor call that
\* reached it
reportAnswered ==
  /\ response.endpoint \in {"check", "monitor"}
  /\ response.code = 200

\* C11: the status of a check-processes or monitor-processes response is
\* "clear" when the report's severity is CLEAN and "violations_detected"
\* when it is LOW, MEDIUM, HIGH or CRITICAL; the response's severity is the
\* report's and is one of these five values.
C11_StatusFromSeverity ==
  /\ statusOf("CLEAN") = "clear"
  /\ \A severity \in Severities : statusOf(severity) = "violations_detected"
  /\ reportAnswered =>
       /\ response.report # <<>>
       /\ response.severity = <<response.report[1].severity>>
       /\ response.severity[1] \in Severities \cup {"CLEAN"}
       /\ response.status =
            IF response.severity[1] = "CLEAN"
              THEN "clear" ELSE "violations_detected"

\* a monitor call answered "clear" with a CLEAN report that holds
\* violations, after a check answered for the same session
C11_Witness ==
  /\ reportAnswered
  /\ response.endpoint = "monitor"
  /\ response.status = "clear"
  /\ response.report[1].violations # <<>>
  /\ response.session # <<>>

----------------------------------------------------------------------------
(* Properties of the browser-instance findings *)

\* both servers have reported on the psList answer
browsersReported == ret # <<>> /\ ret[1].stage = "reported"

\* the SUSPICIOUS_BROWSER_ACTIVITY findings for a browser name
browserFindingsFor(findings, browser) ==
  SelectSeq(findings, LAMBDA v : v.details[1] = browser)

\* a browser with `count` instances has exactly one finding, MEDIUM or
\* HIGH when count exceeds `high`, if count exceeds `threshold`, else none
thresholdRule(findings, browser, count, threshold, high) ==
  IF count > threshold
    THEN /\ Len(browserFindingsFor(findings, browser)) = 1
         /\ browserFindingsFor(findings, browser)[1].severity =
              IF count > high THEN "HIGH" ELSE "MEDIUM"
    ELSE browserFindingsFor(findings, browser) = <<>>

\* the rule for both browsers of the psList answer
thresholdRules(findings, threshold, high) ==
  /\ thresholdRule(findings, <<"c","h","r","o","m","e">>,
                   arg.chrome, threshold, high)
  /\ thresholdRule(findings, <<"f","i","r","e","f","o","x">>,
                   arg.firefox, threshold, high)

----------------------------------------------------------------------------
(* Properties of the classification of one process *)

\* the UNAUTHORIZED_APPLICATION findings of a report
unauthorizedFindings(report) ==
  SelectSeq(report.violations,
            LAMBDA v : v.type = "UNAUTHORIZED_APPLICATION")

\* the SUSPICIOUS_ACTIVITY findings of a report
suspiciousFindings(report) ==
  SelectSeq(report.violations, LAMBDA v : v.type = "SUSPICIOUS_ACTIVITY")

\* C13: for a process that matches a catalog signature, adding the marker
\* main.js to its command line never yields a finding of lower severity
\* than the same process without the marker.
C13_EscalationMonotonic ==
  (ret # <<>> /\ unauthorizedFindings(ret[1].plain.report) # <<>>) =>
    /\ Len(unauthorizedFindings(ret[1].marked.report)) = 1
    /\ SeverityRank(unauthorizedFindings(ret[1].marked.report)[1].severity)
         >= SeverityRank(unauthorizedFindings(ret[1].plain.report)[1].severity)

\* chrome.exe run through a proxy is MEDIUM, and CRITICAL with the marker
C13_Witness ==
  /\ ret # <<>>
  /\ arg.name = <<"c","h","r","o","m","e",".","e","x","e">>
  /\ arg.cmd = <<"p","r","o","x","y">>
  /\ unauthorizedFindings(ret[1].plain.report)[1].severity = "MEDIUM"
  /\ unauthorizedFindings(ret[1].marked.report)[1].severity = "CRITICAL"

\* the observation is skipped as the server's own process
skippedAsOwn(proc) == isDev /\ proc.name # <<>> /\ ownProcess(proc)

\* C14: when the command line of a signature-matched process contains the
\* marker main.js, its UNAUTHORIZED_APPLICATION finding has severity
\* CRITICAL and confidence >= 0.9, whatever the signature's base severity
\* and whatever other pattern the command line contains.
C14_MarkerIsCritical ==
  (/\ ret # <<>>
   /\ matchesSignature(arg.name)
   /\ arg.name # <<>>
   /\ ~skippedAsOwn(withMarker(arg))) =>
    /\ Len(unauthorizedFindings(ret[1].marked.report)) = 1
    /\ unauthorizedFindings(ret[1].marked.report)[1].severity = "CRITICAL"
    /\ unauthorizedFindings(ret[1].marked.report)[1].confidence >= 90

\* electron behind a proxy, with the marker: CRITICAL at confidence 0.98;
\* without it the proxy pattern makes the finding MEDIUM
C14_Witness ==
  /\ ret # <<>>
  /\ arg.name = <<"e","l","e","c","t","r","o","n">>
  /\ arg.cmd = <<"p","r","o","x","y">>
  /\ unauthorizedFindings(ret[1].plain.report)[1].severity = "MEDIUM"
  /\ unauthorizedFindings(ret[1].marked.report)[1].severity = "CRITICAL"
  /\ unauthorizedFindings(ret[1].marked.report)[1].confidence = 98

\* the catalog patterns that occur in the command line, case-insensitively
patternsIn(cmd) ==
  {i \in 1..Len(suspiciousPatterns) :
     includes(toLowerCase(cmd), toLowerCase(suspiciousPatterns[i].pattern))}

\* the confidence the Electron checks leave: 0.95 for main.js, 0.85 for
\* an .asar archive, else 0.8
baseConfidence(proc) ==
  IF isElectronMainJs(proc) THEN 95
  ELSE IF isElectronAsar(proc) THEN 85
  ELSE 80

\* the finding of a matched process whose command line contains a pattern
\* carries the first such pattern's severity and description, and the base
\* confidence raised by 0.1 up to 0.98
patternRule(proc, findings) ==
  (/\ matchesSignature(proc.name)
   /\ proc.name # <<>>
   /\ ~skippedAsOwn(proc)
   /\ patternsIn(proc.cmd) # {}) =>
    /\ Len(findings) = 1
    /\ findings[1].severity =
         suspiciousPatterns[firstOf(patternsIn(proc.cmd))].severity
    /\ Len(findings[1].details[3]) = 2
    /\ findings[1].details[3][2] =
         suspiciousPatterns[firstOf(patternsIn(proc.cmd))].description
    /\ findings[1].confidence = Min(98, baseConfidence(proc) + 10)

\* C15: when the command line of a signature-matched process contains a
\* command pattern (case-insensitively), the finding's severity is that of
\* the first matching pattern in catalog order, that pattern's description
\* is appended to the finding's description, and the confidence is raised
\* by 0.1 but never above 0.98.
C15_PatternOverrides ==
  ret # <<>> =>
    /\ patternRule(arg, unauthorizedFindings(ret[1].plain.report))
    /\ patternRule(withMarker(arg),
                   unauthorizedFindings(ret[1].marked.report))

\* "hack cheat" contains cheat (third in the catalog, CRITICAL) and hack
\* (fourth, HIGH): the finding of teamviewer.exe takes CRITICAL from cheat
C15_Witness ==
  /\ ret # <<>>
  /\ arg.name = <<"t","e","a","m","v","i","e","w","e","r",".","e","x","e">>
  /\ arg.cmd = <<"h","a","c","k"," ","c","h","e","a","t">>
  /\ patternsIn(arg.cmd) = {3, 4}
  /\ unauthorizedFindings(ret[1].plain.report)[1].severity = "CRITICAL"
  /\ unauthorizedFindings(ret[1].plain.report)[1].details[3][2] =
       "Cheat-related keyword"
  /\ unauthorizedFindings(ret[1].plain.report)[1].confidence = 90

\* the name is missing or equals no catalog signature name
unmatched(proc) == proc.name = <<>> \/ ~matchesSignature(proc.name)

\* a process outside the catalog whose command line contains a pattern
\* yields one SUSPICIOUS_ACTIVITY finding of the first such pattern's
\* severity at confidence 0.8; a process of the catalog yields none, and
\* its own finding is more confident when a pattern confirms it
suspiciousRule(proc, report) ==
  /\ (/\ unmatched(proc)
      /\ ~skippedAsOwn(proc)
      /\ patternsIn(proc.cmd) # {}) =>
        /\ Len(suspiciousFindings(report)) = 1
        /\ suspiciousFindings(report)[1].severity =
             suspiciousPatterns[firstOf(patternsIn(proc.cmd))].severity
        /\ suspiciousFindings(report)[1].confidence = 80
        /\ unauthorizedFindings(report) = <<>>
  /\ ~unmatched(proc) => suspiciousFindings(report) = <<>>
  /\ (~unmatched(proc) /\ patternsIn(proc.cmd) # {}) =>
        \A k \in 1..Len(unauthorizedFindings(report)) :
          unauthorizedFindings(report)[k].confidence > 80

\* C16: a process whose command line matches a command pattern but whose
\* name matches no signature yields exactly one SUSPICIOUS_ACTIVITY finding
\* with the pattern's severity and confidence 0.8, lower than the
\* confidence of any signature match that a command line confirms; a
\* process that matched a signature never yields a SUSPICIOUS_ACTIVITY
\* finding.
C16_SuspiciousOnlyUnmatched ==
  ret # <<>> =>
    /\ suspiciousRule(arg, ret[1].plain.report)
    /\ suspiciousRule(withMarker(arg), ret[1].marked.report)

\* notes is outside the catalog: behind a proxy it yields one MEDIUM
\* SUSPICIOUS_ACTIVITY finding, with the marker a CRITICAL one
C16_Witness ==
  /\ ret # <<>>
  /\ arg.name = <<"n","o","t","e","s">>
  /\ arg.cmd = <<"p","r","o","x","y">>
  /\ Len(suspiciousFindings(ret[1].plain.report)) = 1
  /\ suspiciousFindings(ret[1].plain.report)[1].severity = "MEDIUM"
  /\ suspiciousFindings(ret[1].plain.report)[1].confidence = 80
  /\ suspiciousFindings(ret[1].marked.report)[1].severity = "CRITICAL"

\* the results without the command lines the entries quote
withoutCommandLines(results) ==
  [results EXCEPT
     !.unauthorized = [k \in 1..Len(@) |-> [@[k] EXCEPT !.cmd = <<>>]],
     !.suspicious = [k \in 1..Len(@) |-> [@[k] EXCEPT !.cmd = <<>>]]]

\* in production the process is classified as the same process naming
\* another script: one and the same report, and the same results up to
\* the quoted command line
classifiedAsAnyNode ==
  ~isDev =>
    /\ ret[1].present.report = ret[1].other.report
    /\ withoutCommandLines(ret[1].present.results)
         = withoutCommandLines(ret[1].other.results)
    /\ \E k \in 1..Len(ret[1].present.report.violations) :
         ret[1].present.report.violations[k].details[2] = 1

\* C17 as stated: in development mode the server's own process (node or
\* node.exe with server.mjs in the command line) produces no finding and
\* is counted nowhere, so results and report are those of a scan without
\* it; in production mode it is classified like any other node process.
C17_SelfAllowList ==
  ret # <<>> =>
    /\ isDev => /\ ret[1].present.report = ret[1].absent.report
                /\ ret[1].present.results = ret[1].absent.results
    /\ classifiedAsAnyNode

\* C17, amended: in development mode the server's own process produces no
\* finding and enters no category counter, risk score or confidence;
\* results.processCount, the size of the process list, still includes it.
\* In production mode it is classified like any other node process.
C17_SelfAllowListButProcessCount ==
  ret # <<>> =>
    /\ isDev =>
         /\ ret[1].present.report = ret[1].absent.report
         /\ [ret[1].present.results EXCEPT !.processCount = 0]
              = [ret[1].absent.results EXCEPT !.processCount = 0]
         /\ ret[1].present.results.processCount
              = ret[1].absent.results.processCount + 1
    /\ classifiedAsAnyNode

\* development mode: NODE.EXE running server.mjs beside zoom.exe leaves
\* one finding, for zoom.exe, and a process count of 2
C17_Witness ==
  /\ ret # <<>>
  /\ isDev
  /\ arg.own.name = <<"N","O","D","E",".","E","X","E">>
  /\ arg.neighbour.name = <<"z","o","o","m",".","e","x","e">>
  /\ Len(ret[1].present.report.violations) = 1
  /\ ret[1].present.report.violations[1].details[2] = 2
  /\ ret[1].present.results.processCount = 2
  /\ Len(ret[1].other.report.violations) = 2

\* the number of anomalies of this type
anomaliesOf(anomalies, type) ==
  Cardinality({k \in 1..Len(anomalies) : anomalies[k].type = type})

\* the rule fired exactly when `fires`, leaving one anomaly of `severity`
ruleFired(anomalies, type, fires, severity) ==
  IF fires
    THEN /\ anomaliesOf(anomalies, type) = 1
         /\ hasAnomaly(anomalies, type, severity)
    ELSE anomaliesOf(anomalies, type) = 0

\* the four rules applied to the counters t, r, i, k
behaviorRules(analysis, t, r, i, k) ==
  /\ analysis.riskScore =
       (IF t > 5 THEN t * 2 ELSE 0) + (IF r > 3 THEN r * 3 ELSE 0)
       + (IF i > 60000 THEN 10 ELSE 0) + (IF k > 500 THEN 15 ELSE 0)
  /\ ruleFired(analysis.anomalies, "EXCESSIVE_TAB_SWITCHING", t > 5,
               IF t > 10 THEN "HIGH" ELSE "MEDIUM")
  /\ ruleFired(analysis.anomalies, "EXCESSIVE_RIGHT_CLICKS", r > 3, "MEDIUM")
  /\ ruleFired(analysis.anomalies, "EXTENDED_IDLE_TIME", i > 60000, "MEDIUM")
  /\ ruleFired(analysis.anomalies, "UNUSUAL_KEYSTROKE_PATTERN", k > 500,
               "HIGH")
  /\ Len(analysis.anomalies) =
       (IF t > 5 THEN 1 ELSE 0) + (IF r > 3 THEN 1 ELSE 0)
       + (IF i > 60000 THEN 1 ELSE 0) + (IF k > 500 THEN 1 ELSE 0)

\* C18: analyzeBehaviorMetrics returns the sum of the contributions of
\* exactly the rules whose threshold is exceeded (tabSwitches > 5:
\* tabSwitches * 2; rightClicks > 3: rightClicks * 3; idleTime > 60000: 10;
\* keystrokes / 5 > 100: 15) and one anomaly per fired rule with its
\* severity (tab switching HIGH above 10, else MEDIUM); tabSwitches = 12
\* alone gives one HIGH EXCESSIVE_TAB_SWITCHING anomaly and score 24.
C18_BehaviorScoreIsSumOfRules ==
  (ret # <<>> /\ arg # <<>>) =>
    /\ behaviorRules(ret[1], arg[1].tabSwitches, arg[1].rightClicks,
                     arg[1].idleTime, arg[1].keystrokes)
    /\ (/\ arg[1].tabSwitches = 12 /\ arg[1].rightClicks = 0
        /\ arg[1].idleTime = 0 /\ arg[1].keystrokes = 0) =>
          /\ ret[1].riskScore = 24
          /\ Len(ret[1].anomalies) = 1
          /\ ret[1].anomalies[1].type = "EXCESSIVE_TAB_SWITCHING"
          /\ ret[1].anomalies[1].severity = "HIGH"

\* 6 tab switches, 4 right clicks, 60001 ms idle and 501 keystrokes fire
\* all four rules: 12 + 12 + 10 + 15
C18_Witness ==
  /\ ret # <<>>
  /\ arg # <<>>
  /\ arg[1].tabSwitches = 6
  /\ arg[1].rightClicks = 4
  /\ arg[1].idleTime = 60001
  /\ arg[1].keystrokes = 501
  /\ ret[1].riskScore = 49
  /\ Len(ret[1].anomalies) = 4

\* the violations of the report filed under this category
inCategory(report, category) ==
  SelectSeq(report.violations, LAMBDA v : v.category = category)

\* the risk score of the analysis the report carries, 0 without one
scoreOf(analysis) ==
  IF analysis = <<>> THEN 0 ELSE analysis[1].riskScore

\* C19: the behavioral and the biometric analyzer return risk score 0 and
\* no anomaly for an absent input, without failing; a report generated
\* without behavioral (biometric) input has no behavioral (biometric)
\* violation, and its overall risk score has no contribution from it.
C19_AbsentInputContributesNothing ==
  /\ ~behaviorThrows(<<>>)
  /\ analyzeBehaviorMetrics(<<>>).riskScore = 0
  /\ analyzeBehaviorMetrics(<<>>).anomalies = <<>>
  /\ ~biometricThrows(<<>>)
  /\ analyzeBiometricData(<<>>).riskScore = 0
  /\ analyzeBiometricData(<<>>).anomalies = <<>>
  /\ ret # <<>> =>
       /\ arg.behaviorData = <<>> =>
            /\ inCategory(ret[1].report, "behavior") = <<>>
            /\ ret[1].report.aiInsights.behaviorAnalysis = <<>>
       /\ arg.biometricData = <<>> =>
            /\ inCategory(ret[1].report, "biometric") = <<>>
            /\ ret[1].report.aiInsights.biometricAnalysis = <<>>
       /\ (arg.behaviorData = <<>> /\ arg.biometricData = <<>>) =>
            ~ret[1].threw
       /\ ~ret[1].threw =>
            ret[1].report.aiInsights.overallRiskScore =
              ret[1].results.aiAnalysis.riskScore
              + (IF arg.behaviorData = <<>> THEN 0
                 ELSE scoreOf(ret[1].report.aiInsights.behaviorAnalysis))
              + (IF arg.biometricData = <<>> THEN 0
                 ELSE scoreOf(ret[1].report.aiInsights.biometricAnalysis))

\* a scan that found processes, reported without either input: the
\* overall risk score is the scan's own
C19_Witness ==
  /\ ret # <<>>
  /\ arg.behaviorData = <<>>
  /\ arg.biometricData = <<>>
  /\ ~ret[1].threw
  /\ ret[1].report.violations # <<>>
  /\ ret[1].results.aiAnalysis.riskScore > 0
  /\ ret[1].report.aiInsights.overallRiskScore =
       ret[1].results.aiAnalysis.riskScore

\* the number of violations of this severity
violationsOf(report, severity) ==
  Cardinality({k \in 1..Len(report.violations) :
                 report.violations[k].severity = severity})

\* C20: in every report summary.totalViolations equals the number of
\* entries of report.violations and the sum of the four per-severity
\* counts, and each per-severity count equals the number of violations of
\* that severity.
C20_SummaryTallies ==
  ret # <<>> =>
    /\ ret[1].report.summary.totalViolations = Len(ret[1].report.violations)
    /\ ret[1].report.summary.totalViolations =
         ret[1].report.summary.criticalViolations
         + ret[1].report.summary.highViolations
         + ret[1].report.summary.mediumViolations
         + ret[1].report.summary.lowViolations
    /\ ret[1].report.summary.criticalViolations =
         violationsOf(ret[1].report, "CRITICAL")
    /\ ret[1].report.summary.highViolations =
         violationsOf(ret[1].report, "HIGH")
    /\ ret[1].report.summary.mediumViolations =
         violationsOf(ret[1].report, "MEDIUM")
    /\ ret[1].report.summary.lowViolations =
         violationsOf(ret[1].report, "LOW")

\* a report that tallies violations of three severities, a LOW one among
\* them
C20_Witness ==
  /\ ret # <<>>
  /\ ret[1].report.summary.lowViolations >= 1
  /\ ret[1].report.summary.highViolations >= 1
  /\ ret[1].report.summary.mediumViolations >= 1
  /\ ret[1].report.summary.totalViolations >= 4

----------------------------------------------------------------------------
(* Properties of the risk score, the recommendations and the confidence *)

\* the report of the scan has been generated
hitsReported == ret # <<>> /\ ret[1].stage = "reported"

\* the number of violations of this type in the report
ofType(report, type) ==
  Len(SelectSeq(report.violations, LAMBDA v : v.type = type))

\* the number of signature hits of this catalog category in the report
hitsOf(report, category) ==
  Len(SelectSeq(report.violations,
                LAMBDA v : /\ v.type = "UNAUTHORIZED_APPLICATION"
                           /\ v.category = category))

\* the weighted sum of the findings of the report and of its analyses
weightedSum(report) ==
  40 * hitsOf(report, "cheating")
  + 15 * hitsOf(report, "development")
  + 10 * hitsOf(report, "communication")
  + 25 * ofType(report, "SUSPICIOUS_ACTIVITY")
  + 20 * ofType(report, "SUSPICIOUS_NETWORK_ACTIVITY")
  + scoreOf(report.aiInsights.behaviorAnalysis)
  + scoreOf(report.aiInsights.biometricAnalysis)

\* C21: the overall risk score of the report equals 40 x cheating hits
\* + 15 x development hits + 10 x communication hits + 25 x suspicious
\* activities + 20 x network threats + the behavioral risk score + the
\* biometric risk score, for every combination of findings.
C21_RiskScoreIsWeightedSum ==
  hitsReported =>
    ret[1].report.aiInsights.overallRiskScore = weightedSum(ret[1].report)

\* the same for the reports whose generation ran to its end
C21_RiskScoreWhenCompleted ==
  (hitsReported /\ ~ret[1].threw) =>
    ret[1].report.aiInsights.overallRiskScore = weightedSum(ret[1].report)

\* a completed report with findings of every kind and both analyses
C21_Completed ==
  /\ hitsReported
  /\ ~ret[1].threw
  /\ arg.cheating = 1 /\ arg.development = 2 /\ arg.communication = 1
  /\ arg.suspicious = 1 /\ arg.threats = 1
  /\ arg.behaviorData # <<>> /\ arg.biometricData # <<>>
  /\ ret[1].report.aiInsights.overallRiskScore = 40 + 30 + 10 + 25 + 20 + 24 + 50

\* the recommendation is among those of the report
recommends(report, text) ==
  \E k \in 1..Len(report.aiInsights.recommendations) :
    report.aiInsights.recommendations[k] = text

\* both recommendations of the tier above 100
urgentTier(report) ==
  /\ recommends(report, "IMMEDIATE INTERVENTION REQUIRED")
  /\ recommends(report, "Consider terminating interview session")

\* both recommendations of the tier above 50
raisedTier(report) ==
  /\ recommends(report, "Increase monitoring frequency")
  /\ recommends(report, "Enable additional security measures")

\* none of the recommendations of the tier above 100
noUrgentTier(report) ==
  /\ ~recommends(report, "IMMEDIATE INTERVENTION REQUIRED")
  /\ ~recommends(report, "Consider terminating interview session")

\* none of the recommendations of the tier above 50
noRaisedTier(report) ==
  /\ ~recommends(report, "Increase monitoring frequency")
  /\ ~recommends(report, "Enable additional security measures")

\* the ladder of recommendations for the report
ladder(report) ==
  /\ report.aiInsights.overallRiskScore > 100 =>
       urgentTier(report) /\ noRaisedTier(report)
  /\ (/\ report.aiInsights.overallRiskScore > 50
      /\ report.aiInsights.overallRiskScore <= 100) =>
       raisedTier(report) /\ noUrgentTier(report)
  /\ report.aiInsights.overallRiskScore <= 50 =>
       noUrgentTier(report) /\ noRaisedTier(report)
  /\ violationsOf(report, "CRITICAL") > 0 =>
       recommends(report,
                  "Critical violations detected - manual review required")

\* C22: an overall risk score above 100 adds the immediate-intervention
\* and consider-terminating recommendations; a score above 50 and at most
\* 100 adds the increase-monitoring and additional-measures ones, never
\* both tiers; a report with a CRITICAL violation always contains the
\* manual-review recommendation, whatever the score.
C22_RecommendationLadder ==
  hitsReported => ladder(ret[1].report)

\* the same for the reports whose generation ran to its end
C22_LadderWhenCompleted ==
  (hitsReported /\ ~ret[1].threw) => ladder(ret[1].report)

\* a completed report above 100 with a CRITICAL violation: three
\* recommendations
C22_Completed ==
  /\ hitsReported
  /\ ~ret[1].threw
  /\ ret[1].report.aiInsights.overallRiskScore > 100
  /\ violationsOf(ret[1].report, "CRITICAL") > 0
  /\ Len(ret[1].report.aiInsights.recommendations) = 3

\* C23: for any number of findings the report confidence lies in [0, 1]
\* and never exceeds 0.98, the confidence of the process analysis never
\* exceeds 0.95, and no UNAUTHORIZED_APPLICATION finding has a confidence
\* above 0.98: a confidence of 1.0 is never reported.
C23_ConfidenceCapped ==
  hitsReported =>
    /\ ret[1].report.aiInsights.confidence >= 0
    /\ ret[1].report.aiInsights.confidence <= 98
    /\ ret[1].results.aiAnalysis.confidence >= 0
    /\ ret[1].results.aiAnalysis.confidence <= 95
    /\ \A k \in 1..Len(ret[1].report.violations) :
         ret[1].report.violations[k].type = "UNAUTHORIZED_APPLICATION" =>
           /\ ret[1].report.violations[k].confidence >= 0
           /\ ret[1].report.violations[k].confidence <= 98

\* eight findings, 0.6 + 7 x 0.05 + 0.03 capped to 0.95 for the scan and
\* 0.95 + 0.05 per AI-detected violation capped to 0.98 for the report;
\* electron running main.js has 0.95 + 0.1 capped to 0.98
C23_Witness ==
  /\ hitsReported
  /\ ~ret[1].threw
  /\ Len(ret[1].results.unauthorized) = 7
  /\ Len(ret[1].results.suspicious) = 1
  /\ ret[1].results.aiAnalysis.confidence = 95
  /\ ret[1].report.aiInsights.confidence = 98
  /\ ret[1].report.violations[1].type = "UNAUTHORIZED_APPLICATION"
  /\ ret[1].report.violations[1].confidence = 98

----------------------------------------------------------------------------
(* Properties of POST /api/terminate-processes *)

\* the pids of the failed entries, in order
failedPids(results) == [k \in 1..Len(results.failed) |-> results.failed[k].pid]

\* the number of entries of the sequence that equal pid
entriesOf(pids, pid) == Cardinality({k \in 1..Len(pids) : pids[k] = pid})

\* s is t with some entries left out, in the same order
RECURSIVE isSubsequence(_, _)
isSubsequence(s, t) ==
  IF s = <<>> THEN TRUE
  ELSE IF t = <<>> THEN FALSE
  ELSE IF Head(s) = Head(t) THEN isSubsequence(Tail(s), Tail(t))
  ELSE isSubsequence(s, Tail(t))

----------------------------------------------------------------------------
(* Properties of the request handlers and the session registry *)

\* C25: a monitor-processes request without the session id is answered
\* with a client error and an explanatory message, without running a scan
\* and without changing any session record or any violation history.
C25_MissingSessionIdRejected ==
  [][\A body \in MonitorBodies :
       BeginMonitor("", body) =>
         /\ response'.endpoint = "monitor"
         /\ response'.code = 400
         /\ response'.status = "error"
         /\ response'.message = "Session ID required for monitoring"
         /\ response'.report = <<>>
         /\ inflight' = inflight
         /\ handled' = handled
         /\ activeSessions' = activeSessions
         /\ sessionViolations' = sessionViolations]_vars

\* the 400 answer, given while a session with a violation history exists
C25_Witness ==
  /\ response.endpoint = "monitor"
  /\ response.code = 400
  /\ inflight = {}
  /\ ClientId \in DOMAIN activeSessions
  /\ ClientId \in DOMAIN sessionViolations
  /\ sessionViolations[ClientId] # <<>>

\* C26: a check-processes or monitor-processes response has status
\* "clear" only if report.violations is empty; a report that lists a
\* violation of any type or severity is never returned as clear.
C26_ClearOnlyWithoutViolations ==
  (reportAnswered /\ response.status = "clear") =>
    response.report[1].violations = <<>>

----------------------------------------------------------------------------
(* Properties of the classification of one process *)

\* the severity of the first catalog signature the name matches
baseSeverity(name) ==
  unauthorizedApps[isDev][
    firstOf({i \in 1..Len(unauthorizedApps[isDev]) :
               toLowerCase(name) = toLowerCase(unauthorizedApps[isDev][i].name)})
  ].severity

\* no finding for the process is below the base severity of its signature
notBelowBase(proc, report) ==
  \A k \in 1..Len(unauthorizedFindings(report)) :
    SeverityRank(unauthorizedFindings(report)[k].severity)
      >= SeverityRank(baseSeverity(proc.name))

\* C27: the severity of an UNAUTHORIZED_APPLICATION finding is never lower
\* than the base severity of the catalog signature it matched, whatever
\* the command line of the process contains.
C27_SeverityNeverBelowBase ==
  (ret # <<>> /\ arg.name # <<>> /\ matchesSignature(arg.name)) =>
    /\ notBelowBase(arg, ret[1].plain.report)
    /\ notBelowBase(arg, ret[1].marked.report)

----------------------------------------------------------------------------
(* Properties of the session registry *)

\* C28: in every reachable state of the registry every session id that
\* has a violation history also has a session record, so that the history
\* recorded by monitor-processes is retrievable through GET /session/:id.
C28_HistoryHasSession ==
  \A sessionId \in DOMAIN sessionViolations :
    sessionId \in DOMAIN activeSessions

\* the step completes a check-processes call for a session that exists
\* before and after it
checkedAgain(sessionId) ==
  /\ \E r \in inflight \ inflight' :
       r.endpoint = "check" /\ r.sessionId = sessionId
  /\ sessionId \in DOMAIN activeSessions
  /\ sessionId \in DOMAIN activeSessions'

\* C29: once a session exists, a later check-processes call with the same
\* session id leaves the session's startTime, securityScore and
\* connectionDetails unchanged; only lastCheck and the violation history
\* advance.
C29_CheckKeepsSession ==
  [][\A sessionId \in SessionIds :
       checkedAgain(sessionId) =>
         /\ activeSessions'[sessionId].startTime
              = activeSessions[sessionId].startTime
         /\ activeSessions'[sessionId].securityScore
              = activeSessions[sessionId].securityScore
         /\ activeSessions'[sessionId].connectionDetails
              = activeSessions[sessionId].connectionDetails]_vars

----------------------------------------------------------------------------
(* Every CRITICAL signature hit and the risk score *)

\* C30: every UNAUTHORIZED_APPLICATION finding of CRITICAL severity
\* contributes a positive amount to the overall risk score: a report that
\* contains one, of whatever catalog category, has overallRiskScore > 0.
C30_CriticalHitRaisesScore ==
  (/\ hitsReported
   /\ \E k \in 1..Len(ret[1].report.violations) :
        /\ ret[1].report.violations[k].type = "UNAUTHORIZED_APPLICATION"
        /\ ret[1].report.violations[k].severity = "CRITICAL") =>
    ret[1].report.aiInsights.overallRiskScore > 0

====
